---- MODULE Spec2Model ----
(***************************************************************************)
(* A model of the diagnostic and remediation engine of ansible_mcp         *)
(* (src/src/ansible_mcp/server.py): the auto-heal planner, the health      *)
(* scorer, the log-hunter correlation, the log pattern analyzer, the host  *)
(* diagnosis, the security audit, the health monitor, the performance      *)
(* baseline, the project resolution and the vault tools.                   *)
(*                                                                         *)
(* Each tool is a synchronous call.  A call is modelled as a small state   *)
(* machine: Init draws the arguments, one action per step of the handler   *)
(* (one remote command per step where the handler issues commands), and a  *)
(* final state pc = "done" (the handler returned) or pc = "raised" (an     *)
(* exception left the handler).  Every tool has its own specification;     *)
(* the variables of the other tools keep their initial value.              *)
(*                                                                         *)
(* ansible_task (the remote executor) is modelled by its result: a record  *)
(* whose ok flag is rc == 0, chosen nondeterministically.                  *)
(***************************************************************************)
EXTENDS Integers, Sequences, FiniteSets

VARIABLES
    pc,                 \* position of the running handler
    \* ansible_auto_heal
    symptoms,           \* argument: list of symptom strings
    max_impact,         \* argument: "low" | "medium" | "high" | other | None
    dry_run,            \* argument: True | False | None
    healing_actions,    \* local: actions generated from the symptoms
    allowed_actions,    \* local: actions that pass the impact filter
    execution_results,  \* local: one entry per executed action
    safety_result,      \* local: result of the safety check of the current action
    issued,             \* every remote command issued so far, in order
    heal_return,        \* the returned dict (None before the return)
    \* _calculate_health_score
    metrics,            \* argument: the metrics bag
    assessment,         \* the returned dict (None before the return)
    \* ansible_log_hunter
    correlation_window, \* argument: seconds
    search_idx,         \* position in the (log_path, pattern) double loop
    hunt_results,       \* log_path -> pattern -> matches
    all_matches,        \* every match, with its extracted timestamp
    sorted_matches,     \* all_matches after sorted(...)
    corr_idx,           \* index i of the correlation loop
    correlated_events,  \* clusters found so far
    hunt_return,        \* the returned dict (None before the return)
    \* _analyze_log_patterns
    logs,               \* argument: the log text
    analysis,           \* the returned dict (None before the return)
    \* ansible_diagnose_host
    checks,             \* argument: list of check categories | None
    include_recommendations, \* argument: True | False | None
    probes,             \* category -> the result ansible_task gave for its probe
    diagnosis,          \* local: the diagnosis dict (checks, health_score)
    diagnose_return,    \* the returned dict (None before the return)
    \* ansible_security_audit
    audit_categories,   \* argument: list of audit categories | None
    generate_report,    \* argument: True | False | None
    audit_results,      \* local: the audit dict (categories, security_assessment)
    audit_return,       \* the returned dict (None before the return)
    \* ansible_health_monitor
    monitoring_duration, \* argument: seconds | None
    metrics_interval,   \* argument: seconds | None
    sample_idx,         \* local: i of the collection loop
    metrics_history,    \* local: the samples collected so far
    monitor_events,     \* every probe issued and every sleep, in order
    monitor_return,     \* the returned dict (None before the return)
    \* ansible_performance_baseline
    benchmark_duration,   \* the argument benchmark_duration, None when null
    store_baseline,       \* the argument store_baseline, None when null
    benchmarks,           \* baseline_results["benchmarks"]
    baseline_return,      \* the dict returned, None before the return
    \* project_run_playbook
    project,              \* the argument project, None when null
    env_root,             \* MCP_ANSIBLE_PROJECT_ROOT, None when unset
    registry,             \* cfg.projects: name -> ProjectDefinition
    default_project,      \* cfg.defaults.get("project"), None when absent
    defn,                 \* what _resolve_project returned
    playbook_run,         \* the ansible-playbook run issued, None when none
    project_return,       \* the dict returned, None before the return
    \* vault_encrypt, vault_decrypt, vault_view, vault_rekey
    vault_tool,           \* which of the four tools is called
    password,             \* password (old_password of rekey), None when null
    password_file,        \* password_file (old_password_file of rekey)
    new_password,         \* new_password of rekey
    new_password_file,    \* new_password_file of rekey
    env_password,         \* MCP_VAULT_PASSWORD, None when unset
    env_password_file,    \* VAULT_PASSWORD_FILE, None when unset
    tempfiles,            \* the temporary password files present: name -> content
    vault_run,            \* the ansible-vault run: its command line and the
                          \* temporary files present when it started
    vault_outcome,        \* how the run ended: raised, or the exit code rc
    vault_return          \* the dict returned, None before the return

vars == <<pc, symptoms, max_impact, dry_run, healing_actions, allowed_actions,
          execution_results, safety_result, issued, heal_return,
          metrics, assessment,
          correlation_window, search_idx, hunt_results, all_matches,
          sorted_matches, corr_idx, correlated_events, hunt_return,
          logs, analysis,
          checks, include_recommendations, probes, diagnosis, diagnose_return,
          audit_categories, generate_report, audit_results, audit_return,
          monitoring_duration, metrics_interval, sample_idx, metrics_history, monitor_events, monitor_return,
          benchmark_duration, store_baseline, benchmarks, baseline_return,
          project, env_root, registry, default_project, defn, playbook_run, project_return,
          vault_tool, password, password_file, new_password, new_password_file, env_password, env_password_file, tempfiles, vault_run, vault_outcome, vault_return>>

healVars == <<symptoms, max_impact, dry_run, healing_actions, allowed_actions,
              execution_results, safety_result, issued, heal_return>>
scoreVars == <<metrics, assessment>>
huntVars == <<correlation_window, search_idx, hunt_results, all_matches,
              sorted_matches, corr_idx, correlated_events, hunt_return>>
logVars == <<logs, analysis>>
diagVars == <<checks, include_recommendations, probes, diagnosis, diagnose_return>>
auditVars == <<audit_categories, generate_report, audit_results, audit_return>>
monitorVars == <<monitoring_duration, metrics_interval, sample_idx, metrics_history, monitor_events, monitor_return>>
baselineVars == <<benchmark_duration, store_baseline, benchmarks, baseline_return>>
projectVars == <<project, env_root, registry, default_project, defn, playbook_run, project_return>>
vaultVars == <<vault_tool, password, password_file, new_password, new_password_file, env_password, env_password_file, tempfiles, vault_run, vault_outcome, vault_return>>

\* An Optional value: None is the empty tuple, a present value x is <<x>>.
None == <<>>

Some(x) == <<x>>

\* The value of a present Optional.
Val(o) == o[1]

Range(s) == {s[i] : i \in 1..Len(s)}

Max(a, b) == IF a >= b THEN a ELSE b

Min(a, b) == IF a <= b THEN a ELSE b

\* All sequences over S of length at most n.
SeqsUpTo(S, n) == UNION {[1..k -> S] : k \in 0..n}

(***************************************************************************)
(* ansible_auto_heal                                                       *)
(***************************************************************************)

\* Longest symptom list drawn.
MaxSymptoms == 2

Symptoms == {"high_cpu", "high_memory", "disk_full", "service_failed",
             "unknown_symptom"}

\* max_impact: the three levels, an unrecognized string, and None.
MaxImpacts == {Some("low"), Some("medium"), Some("high"), Some("extreme"), None}

\* dry_run is Optional[bool]: True, False or None.
DryRuns == {Some(TRUE), Some(FALSE), None}

\* Python truthiness of an Optional[bool].
Truthy(b) == b # None /\ Val(b)

\* `max_impact or "low"`: None and the empty string are falsy.
OrLow(m) == IF m = None \/ m = Some("") THEN "low" ELSE Val(m)

\* ActionsFor with the last elif written as an else.
ActionsForElse(symptom) ==
    IF symptom = "high_cpu" THEN
        <<[symptom |-> symptom, action |-> "restart_high_cpu_processes",
           impact |-> "medium",
           command |-> "kill -9 $(ps aux --sort=-%cpu | head -6 | tail -5 | awk '{print $2}')",
           safety_check |-> "ps aux --sort=-%cpu | head -6",
           description |-> "Terminate top 5 CPU-consuming processes"]>>
    ELSE IF symptom = "high_memory" THEN
        <<[symptom |-> symptom, action |-> "clear_cache",
           impact |-> "low",
           command |-> "sync && echo 3 > /proc/sys/vm/drop_caches",
           safety_check |-> "free -m",
           description |-> "Clear system cache to free memory"]>>
    ELSE IF symptom = "disk_full" THEN
        <<[symptom |-> symptom, action |-> "cleanup_temp_files",
           impact |-> "low",
           command |-> "find /tmp -type f -atime +7 -delete && find /var/log -name '*.log' -size +100M -delete",
           safety_check |-> "df -h",
           description |-> "Clean up old temporary files and large logs"]>>
    ELSE
        <<[symptom |-> symptom, action |-> "restart_failed_services",
           impact |-> "medium",
           command |-> "systemctl reset-failed && systemctl restart $(systemctl --failed --no-legend | awk '{print $1}')",
           safety_check |-> "systemctl --failed",
           description |-> "Restart all failed services"]>>

\* The if/elif chain of the symptom loop: the action appended for one symptom
\* (a list of zero or one action).
ActionsFor(symptom) ==
    IF symptom = "high_cpu" THEN
        <<[symptom |-> symptom, action |-> "restart_high_cpu_processes",
           impact |-> "medium",
           command |-> "kill -9 $(ps aux --sort=-%cpu | head -6 | tail -5 | awk '{print $2}')",
           safety_check |-> "ps aux --sort=-%cpu | head -6",
           description |-> "Terminate top 5 CPU-consuming processes"]>>
    ELSE IF symptom = "high_memory" THEN
        <<[symptom |-> symptom, action |-> "clear_cache",
           impact |-> "low",
           command |-> "sync && echo 3 > /proc/sys/vm/drop_caches",
           safety_check |-> "free -m",
           description |-> "Clear system cache to free memory"]>>
    ELSE IF symptom = "disk_full" THEN
        <<[symptom |-> symptom, action |-> "cleanup_temp_files",
           impact |-> "low",
           command |-> "find /tmp -type f -atime +7 -delete && find /var/log -name '*.log' -size +100M -delete",
           safety_check |-> "df -h",
           description |-> "Clean up old temporary files and large logs"]>>
    ELSE IF symptom = "service_failed" THEN
        <<[symptom |-> symptom, action |-> "restart_failed_services",
           impact |-> "medium",
           command |-> "systemctl reset-failed && systemctl restart $(systemctl --failed --no-legend | awk '{print $1}')",
           safety_check |-> "systemctl --failed",
           description |-> "Restart all failed services"]>>
    ELSE <<>>

\* for symptom in symptoms: ... healing_actions.append(...)
RECURSIVE BuildHealingActions(_)
BuildHealingActions(syms) ==
    IF syms = <<>> THEN <<>>
    ELSE ActionsFor(Head(syms)) \o BuildHealingActions(Tail(syms))

\* impact_hierarchy with the ranks of medium and high exchanged.
impact_hierarchy_swapped(level) ==
    CASE level = "low" -> 1
      [] level = "medium" -> 3
      [] level = "high" -> 2
      [] OTHER -> 1

\* impact_hierarchy.get(level, 1)
impact_hierarchy(level) ==
    CASE level = "low" -> 1
      [] level = "medium" -> 2
      [] level = "high" -> 3
      [] OTHER -> 1

\* max_impact_level with an unknown ceiling read as the highest level.
max_impact_level_permissive(m) ==
    IF OrLow(m) \in {"low", "medium", "high"} THEN impact_hierarchy(OrLow(m)) ELSE 3

\* max_impact_level = impact_hierarchy.get(max_impact or "low", 1)
max_impact_level(m) == impact_hierarchy(OrLow(m))

\* FilterByImpact with < for <=.
FilterByImpactStrict(actions, m) ==
    SelectSeq(actions, LAMBDA a : impact_hierarchy(a.impact) < max_impact_level(m))

\* The list comprehension that keeps the actions within the ceiling.
FilterByImpact(actions, m) ==
    SelectSeq(actions, LAMBDA a : impact_hierarchy(a.impact) <= max_impact_level(m))

\* [a for a in healing_actions if a not in allowed_actions]
BlockedActions(actions, allowed) ==
    SelectSeq(actions, LAMBDA a : a \notin Range(allowed))

\* ShouldExecute without the test of dry_run.
ShouldExecuteAlways(d) == TRUE

\* `if not dry_run:`
ShouldExecute(d) == ~Truthy(d)

\* The dict ansible_task returns, reduced to the command and its ok flag.
TaskResult(cmd, ok) == [command |-> cmd, ok |-> ok]

HealInit ==
    /\ pc = "heal_start"
    /\ symptoms \in SeqsUpTo(Symptoms, MaxSymptoms)
    /\ max_impact \in MaxImpacts
    /\ dry_run \in DryRuns
    /\ healing_actions = <<>>
    /\ allowed_actions = <<>>
    /\ execution_results = <<>>
    /\ safety_result = None
    /\ issued = <<>>
    /\ heal_return = None

\* Lines 1546-1599: build the actions and filter them by impact.
HealPlan ==
    /\ pc = "heal_start"
    /\ healing_actions' = BuildHealingActions(symptoms)
    /\ allowed_actions' = FilterByImpact(BuildHealingActions(symptoms), max_impact)
    /\ execution_results' = <<>>
    /\ pc' = "heal_loop"
    /\ UNCHANGED <<symptoms, max_impact, dry_run, safety_result, issued, heal_return>>

\* Lines 1604-1612: the safety check of the next allowed action.
HealSafetyCheck ==
    /\ pc = "heal_loop"
    /\ ShouldExecute(dry_run)
    /\ Len(execution_results) < Len(allowed_actions)
    /\ \E ok \in BOOLEAN :
        LET action == allowed_actions[Len(execution_results) + 1]
            res == TaskResult(action.safety_check, ok)
        IN /\ safety_result' = Some(res)
           /\ issued' = Append(issued, res)
    /\ pc' = "heal_exec"
    /\ UNCHANGED <<symptoms, max_impact, dry_run, healing_actions, allowed_actions,
                   execution_results, heal_return>>

\* HealExecute with the safety check as a gate: a failed check skips the healing
\* command.
HealExecuteGated ==
    /\ pc = "heal_exec"
    /\ \E ok \in BOOLEAN :
        LET action == allowed_actions[Len(execution_results) + 1]
            heal_result == TaskResult(action.command, ok)
        IN IF Val(safety_result).ok
           THEN /\ issued' = Append(issued, heal_result)
                /\ execution_results' = Append(execution_results,
                       [action |-> action,
                        safety_check_result |-> Val(safety_result),
                        healing_result |-> heal_result,
                        success |-> heal_result.ok])
           ELSE /\ issued' = issued
                /\ execution_results' = Append(execution_results,
                       [action |-> action,
                        safety_check_result |-> Val(safety_result),
                        healing_result |-> Val(safety_result),
                        success |-> FALSE])
    /\ safety_result' = None
    /\ pc' = "heal_loop"
    /\ UNCHANGED <<symptoms, max_impact, dry_run, healing_actions, allowed_actions,
                   heal_return>>

HealExecute ==
    /\ pc = "heal_exec"
    /\ \E ok \in BOOLEAN :
        LET action == allowed_actions[Len(execution_results) + 1]
            heal_result == TaskResult(action.command, ok)
        IN /\ issued' = Append(issued, heal_result)
           /\ execution_results' = Append(execution_results,
                  [action |-> action,
                   safety_check_result |-> Val(safety_result),
                   healing_result |-> heal_result,
                   success |-> heal_result.ok])
    /\ safety_result' = None
    /\ pc' = "heal_loop"
    /\ UNCHANGED <<symptoms, max_impact, dry_run, healing_actions, allowed_actions,
                   heal_return>>

\* HealReturn with a loop that a failed healing command ends.
HealReturnOnFailure ==
    /\ pc = "heal_loop"
    /\ ShouldExecute(dry_run) =>
          \/ Len(execution_results) = Len(allowed_actions)
          \/ /\ execution_results # <<>>
             /\ ~execution_results[Len(execution_results)].success
    /\ heal_return' = Some(
        [ok |-> TRUE,
         symptoms |-> symptoms,
         proposed_actions |-> allowed_actions,
         blocked_actions |-> BlockedActions(healing_actions, allowed_actions),
         max_impact |-> max_impact,
         dry_run |-> dry_run,
         execution_results |->
             IF ~Truthy(dry_run) THEN Some(execution_results) ELSE None,
         executed_actions |->
             IF ~Truthy(dry_run) THEN Len(execution_results) ELSE 0])
    /\ pc' = "done"
    /\ UNCHANGED <<symptoms, max_impact, dry_run, healing_actions, allowed_actions,
                   execution_results, safety_result, issued>>

\* Lines 1631-1645: the returned dict.
HealReturn ==
    /\ pc = "heal_loop"
    /\ ShouldExecute(dry_run) => Len(execution_results) = Len(allowed_actions)
    /\ heal_return' = Some(
        [ok |-> TRUE,
         symptoms |-> symptoms,
         proposed_actions |-> allowed_actions,
         blocked_actions |-> BlockedActions(healing_actions, allowed_actions),
         max_impact |-> max_impact,
         dry_run |-> dry_run,
         execution_results |->
             IF ~Truthy(dry_run) THEN Some(execution_results) ELSE None,
         executed_actions |->
             IF ~Truthy(dry_run) THEN Len(execution_results) ELSE 0])
    /\ pc' = "done"
    /\ UNCHANGED <<symptoms, max_impact, dry_run, healing_actions, allowed_actions,
                   execution_results, safety_result, issued>>

\* The auto-heal variables while another tool runs.
HealIdle ==
    /\ symptoms = <<>>
    /\ max_impact = None
    /\ dry_run = None
    /\ healing_actions = <<>>
    /\ allowed_actions = <<>>
    /\ execution_results = <<>>
    /\ safety_result = None
    /\ issued = <<>>
    /\ heal_return = None

(***************************************************************************)
(* _calculate_health_score                                                 *)
(***************************************************************************)

\* Longest failed_services list drawn.
MaxFailedServices == 2

MetricKeys == {"cpu_percent", "memory_percent", "disk_usage_percent",
               "failed_services", "network_reachable"}

\* Values on both sides of every threshold of the scorer.
CpuValues == {0, 75, 76, 90, 91}
MemoryValues == {0, 85, 86, 95, 96}
DiskValues == {0, 85, 86, 95, 96}
ServiceNames == {"nginx", "sshd"}

\* A metrics dict: the keys whose Optional value is present.
MetricsBag(cpu, mem, disk, failed, net) ==
    LET full == [cpu_percent |-> cpu, memory_percent |-> mem,
                 disk_usage_percent |-> disk, failed_services |-> failed,
                 network_reachable |-> net]
    IN [k \in {key \in MetricKeys : full[key] # None} |-> Val(full[k])]

Optional(S) == {None} \cup {Some(x) : x \in S}

\* dict.get(key, default)
Get(d, key, default) == IF key \in DOMAIN d THEN d[key] ELSE default

\* An f-string: its pieces, in order.
Fmt(a, b, c) == <<a, b, c>>

Text(a) == <<a>>

\* [f(svc) for svc in failed_services]
RECURSIVE ServiceIssues(_)
ServiceIssues(svcs) ==
    IF svcs = <<>> THEN <<>>
    ELSE <<Fmt("Service ", Head(svcs), " is failed")>> \o ServiceIssues(Tail(svcs))

RECURSIVE ServiceRecommendations(_)
ServiceRecommendations(svcs) ==
    IF svcs = <<>> THEN <<>>
    ELSE <<Fmt("Investigate and restart ", Head(svcs), "")>>
         \o ServiceRecommendations(Tail(svcs))

\* Lines 1037-1046: the CPU rule, as [deduction, issues, recommendations].
CpuRule(m) ==
    LET cpu_usage == Get(m, "cpu_percent", 0)
    IN IF cpu_usage > 90 THEN
           [d |-> 30, i |-> <<Text("Critical CPU usage")>>,
            r |-> <<Text("Identify high CPU processes and optimize or scale")>>]
       ELSE IF cpu_usage > 75 THEN
           [d |-> 15, i |-> <<Text("High CPU usage")>>,
            r |-> <<Text("Monitor CPU trends and prepare for scaling")>>]
       ELSE [d |-> 0, i |-> <<>>, r |-> <<>>]

\* Lines 1048-1057: the memory rule.
MemoryRule(m) ==
    LET memory_percent == Get(m, "memory_percent", 0)
    IN IF memory_percent > 95 THEN
           [d |-> 25, i |-> <<Text("Critical memory usage")>>,
            r |-> <<Text("Free memory or add more RAM")>>]
       ELSE IF memory_percent > 85 THEN
           [d |-> 10, i |-> <<Text("High memory usage")>>,
            r |-> <<Text("Monitor memory consumption patterns")>>]
       ELSE [d |-> 0, i |-> <<>>, r |-> <<>>]

\* Lines 1059-1068: the disk rule.
DiskRule(m) ==
    LET disk_usage == Get(m, "disk_usage_percent", 0)
    IN IF disk_usage > 95 THEN
           [d |-> 20, i |-> <<Text("Critical disk space")>>,
            r |-> <<Text("Clean up files or expand storage")>>]
       ELSE IF disk_usage > 85 THEN
           [d |-> 10, i |-> <<Text("High disk usage")>>,
            r |-> <<Text("Plan for disk space expansion")>>]
       ELSE [d |-> 0, i |-> <<>>, r |-> <<>>]

\* Lines 1070-1075: 15 points per failed service.
ServiceRule(m) ==
    LET failed_services == Get(m, "failed_services", <<>>)
    IN IF failed_services # <<>> THEN
           [d |-> Len(failed_services) * 15,
            i |-> ServiceIssues(failed_services),
            r |-> ServiceRecommendations(failed_services)]
       ELSE [d |-> 0, i |-> <<>>, r |-> <<>>]

\* A connectivity rule that takes a missing key for an unreachable network.
NetworkRuleMissingUnreachable(m) ==
    IF ~Get(m, "network_reachable", FALSE) THEN
        [d |-> 20, i |-> <<Text("Network connectivity issues")>>,
         r |-> <<Text("Check network configuration and connectivity")>>]
    ELSE [d |-> 0, i |-> <<>>, r |-> <<>>]

\* Lines 1077-1081: the connectivity rule.
NetworkRule(m) ==
    IF ~Get(m, "network_reachable", TRUE) THEN
        [d |-> 20, i |-> <<Text("Network connectivity issues")>>,
         r |-> <<Text("Check network configuration and connectivity")>>]
    ELSE [d |-> 0, i |-> <<>>, r |-> <<>>]

\* The local `score` when the return statement is reached.
RawScore(m) ==
    100 - CpuRule(m).d - MemoryRule(m).d - DiskRule(m).d
        - ServiceRule(m).d - NetworkRule(m).d

\* ClampScore without the max.
ClampScoreMissing(score) == score

\* "score": max(0, score)
ClampScore(score) == Max(0, score)

\* HealthLevel with <= for <.
HealthLevelInclusive(score) ==
    IF score <= 50 THEN "critical" ELSE IF score <= 80 THEN "warning" ELSE "healthy"

\* "level": "critical" if score < 50 else "warning" if score < 80 else "healthy"
HealthLevel(score) ==
    IF score < 50 THEN "critical" ELSE IF score < 80 THEN "warning" ELSE "healthy"

_calculate_health_score(m) ==
    [score |-> ClampScore(RawScore(m)),
     level |-> HealthLevel(RawScore(m)),
     issues |-> CpuRule(m).i \o MemoryRule(m).i \o DiskRule(m).i
                \o ServiceRule(m).i \o NetworkRule(m).i,
     recommendations |-> CpuRule(m).r \o MemoryRule(m).r \o DiskRule(m).r
                \o ServiceRule(m).r \o NetworkRule(m).r]

ScoreIdle ==
    /\ metrics = <<>>
    /\ assessment = None

ScoreInit ==
    /\ pc = "score_start"
    /\ \E cpu \in Optional(CpuValues), mem \in Optional(MemoryValues),
          disk \in Optional(DiskValues),
          failed \in Optional(SeqsUpTo(ServiceNames, MaxFailedServices)),
          net \in Optional(BOOLEAN) :
        metrics = MetricsBag(cpu, mem, disk, failed, net)
    /\ assessment = None

\* One call of _calculate_health_score on the drawn metrics.
ScoreCall ==
    /\ pc = "score_start"
    /\ assessment' = Some(_calculate_health_score(metrics))
    /\ pc' = "done"
    /\ UNCHANGED metrics

(***************************************************************************)
(* ansible_log_hunter and _extract_timestamp_from_log                      *)
(*                                                                         *)
(* A log line is modelled by what the timestamp extraction reads of it:    *)
(* the shape of its timestamp text ("iso": matches the first regex,        *)
(* "syslog": matches only the second, "plain": matches neither), whether   *)
(* strptime accepts that text (valid), and the instant it denotes, in      *)
(* seconds (t).  The stdout of a grep is the sequence of its lines.        *)
(***************************************************************************)

\* Longest grep output drawn, in lines.
MaxStdoutLines == 2

\* correlations[:10]
MaxCorrelations == 10

IsoLine(t) == [shape |-> "iso", valid |-> TRUE, t |-> t]
SyslogLine(t) == [shape |-> "syslog", valid |-> TRUE, t |-> t]
\* Digits in the ISO shape that are no date, such as 2024-13-45 10:00:00.
BadIsoLine == [shape |-> "iso", valid |-> FALSE, t |-> 0]
PlainLine == [shape |-> "plain", valid |-> FALSE, t |-> 0]

HuntLines == {IsoLine(0), SyslogLine(5), IsoLine(11), BadIsoLine, PlainLine}

CorrelationWindows == {5, 10}

\* The arguments log_paths and search_patterns.
LogPaths == <<"/var/log/syslog", "/var/log/auth.log">>
SearchPatterns == <<"ERROR">>

\* The (log_path, pattern) pairs in the order of the nested loops.
SearchPairs ==
    [k \in 1..(Len(LogPaths) * Len(SearchPatterns)) |->
        [log_path |-> LogPaths[((k - 1) \div Len(SearchPatterns)) + 1],
         pattern |-> SearchPatterns[((k - 1) % Len(SearchPatterns)) + 1]]]

\* Lines 2218-2240: the first regex that matches decides the format; a
\* ValueError of strptime is swallowed and gives None.
_extract_timestamp_from_log(line) ==
    IF line.shape \in {"iso", "syslog"}
    THEN IF line.valid THEN Some(line.t) ELSE None
    ELSE None

\* matches = stdout.strip().split('\n')
SplitMatches(stdout) == stdout

\* The entries appended to all_matches for one search result.
MatchEntries(pair, matches) ==
    [k \in 1..Len(matches) |->
        [log_file |-> pair.log_path, pattern |-> pair.pattern,
         line |-> matches[k],
         timestamp |-> _extract_timestamp_from_log(matches[k])]]

\* x.get("timestamp", ""): the key is always present, so the default is unused.
SortKey(x) == x.timestamp

\* sorted() compares every element with a neighbour at least once, and None
\* supports no '<': a list of two or more keys with a None among them raises
\* TypeError.

SortRaises(ms) == Len(ms) > 1 /\ \E k \in 1..Len(ms) : SortKey(ms[k]) = None

\* x inserted behind every element whose key is not greater (stable).
RECURSIVE InsertByKey(_, _)
InsertByKey(s, x) ==
    IF s = <<>> THEN <<x>>
    ELSE IF Val(SortKey(s[Len(s)])) <= Val(SortKey(x)) THEN Append(s, x)
    ELSE Append(InsertByKey(SubSeq(s, 1, Len(s) - 1), x), s[Len(s)])

\* sorted(all_matches, key=...) on comparable keys: ascending and stable.
RECURSIVE Sorted(_)
Sorted(ms) ==
    IF ms = <<>> THEN <<>>
    ELSE InsertByKey(Sorted(SubSeq(ms, 1, Len(ms) - 1)), ms[Len(ms)])

Abs(x) == IF x < 0 THEN -x ELSE x

\* WithinWindow with < for <=.
WithinWindowStrict(event_time, other_time, window) ==
    /\ other_time # None
    /\ Abs(Val(event_time) - Val(other_time)) < window

\* Line 2192: other_time and abs((event_time - other_time).total_seconds()) <= window
WithinWindow(event_time, other_time, window) ==
    /\ other_time # None
    /\ Abs(Val(event_time) - Val(other_time)) <= window

\* Lines 2186-2193: [event] + the later events within the window of event i.
RelatedEvents(sm, i, window) ==
    <<sm[i]>> \o
    SelectSeq(SubSeq(sm, i + 1, Len(sm)),
              LAMBDA other_event :
                  WithinWindow(sm[i].timestamp, other_event.timestamp, window))

HuntIdle ==
    /\ correlation_window = 0
    /\ search_idx = 0
    /\ hunt_results = <<>>
    /\ all_matches = <<>>
    /\ sorted_matches = <<>>
    /\ corr_idx = 0
    /\ correlated_events = <<>>
    /\ hunt_return = None

HuntInit ==
    /\ pc = "hunt_search"
    /\ correlation_window \in CorrelationWindows
    /\ search_idx = 1
    /\ hunt_results = <<>>
    /\ all_matches = <<>>
    /\ sorted_matches = <<>>
    /\ corr_idx = 0
    /\ correlated_events = <<>>
    /\ hunt_return = None

\* Lines 2141-2173: one grep through ansible_task and the recording of its
\* matches, the output of the grep being one of Stdouts.
HuntSearchOf(Stdouts) ==
    /\ pc = "hunt_search"
    /\ search_idx <= Len(SearchPairs)
    /\ \E ok \in BOOLEAN, stdout \in Stdouts :
        LET pair == SearchPairs[search_idx]
            matches == SplitMatches(stdout)
            key == <<pair.log_path, pair.pattern>>
        IN IF ok /\ stdout # <<>>
           THEN /\ hunt_results' =
                    [k \in DOMAIN hunt_results \cup {key} |->
                        IF k = key
                        THEN [matches |-> matches, count |-> Len(matches)]
                        ELSE hunt_results[k]]
                /\ all_matches' = all_matches \o MatchEntries(pair, matches)
           ELSE UNCHANGED <<hunt_results, all_matches>>
    /\ search_idx' = search_idx + 1
    /\ UNCHANGED <<pc, correlation_window, sorted_matches, corr_idx,
                   correlated_events, hunt_return>>

\* The search over every short output.
HuntSearch == HuntSearchOf(SeqsUpTo(HuntLines, MaxStdoutLines))

\* Long outputs: matches 8 seconds apart early in the log, a burst of
\* matches late in it, and outputs of one line or with a line without a
\* timestamp.
MaxBurstLines == 7

SparseOutput == [k \in 1..MaxBurstLines |-> IsoLine(8 * k)]
DenseOutput == [k \in 1..MaxBurstLines |-> SyslogLine(1000 + k)]

BurstOutputs ==
    {SparseOutput, DenseOutput, <<IsoLine(500)>>, <<IsoLine(500), PlainLine>>}

\* The search over the long outputs.
HuntSearchBurst == HuntSearchOf(BurstOutputs)

\* Lines 2180-2182: the sort, when there is more than one match.
HuntSort ==
    /\ pc = "hunt_search"
    /\ search_idx > Len(SearchPairs)
    /\ Len(all_matches) > 1
    /\ ~SortRaises(all_matches)
    /\ sorted_matches' = Sorted(all_matches)
    /\ corr_idx' = 1
    /\ pc' = "hunt_correlate"
    /\ UNCHANGED <<correlation_window, search_idx, hunt_results, all_matches,
                   correlated_events, hunt_return>>

\* Line 2182 raising TypeError: nothing catches it, the call ends without a result.
HuntSortRaise ==
    /\ pc = "hunt_search"
    /\ search_idx > Len(SearchPairs)
    /\ Len(all_matches) > 1
    /\ SortRaises(all_matches)
    /\ pc' = "raised"
    /\ UNCHANGED huntVars

\* Line 2180 false: zero or one match, no correlation.
HuntSkipCorrelation ==
    /\ pc = "hunt_search"
    /\ search_idx > Len(SearchPairs)
    /\ Len(all_matches) <= 1
    /\ pc' = "hunt_return"
    /\ UNCHANGED huntVars

\* Lines 2185-2200: one iteration of the loop over the candidate primaries.
HuntCorrelate ==
    /\ pc = "hunt_correlate"
    /\ corr_idx <= Len(sorted_matches)
    /\ LET event == sorted_matches[corr_idx]
           related_events ==
               RelatedEvents(sorted_matches, corr_idx, correlation_window)
       IN IF event.timestamp # None /\ Len(related_events) > 1
          THEN correlated_events' = Append(correlated_events,
                   [primary_event |-> event,
                    related_events |-> Tail(related_events),
                    correlation_strength |-> Len(related_events)])
          ELSE UNCHANGED correlated_events
    /\ corr_idx' = corr_idx + 1
    /\ UNCHANGED <<pc, correlation_window, search_idx, hunt_results, all_matches,
                   sorted_matches, hunt_return>>

\* The loop over the primaries is exhausted.
HuntCorrelateEnd ==
    /\ pc = "hunt_correlate"
    /\ corr_idx > Len(sorted_matches)
    /\ pc' = "hunt_return"
    /\ UNCHANGED huntVars

\* The cap keeping the last clusters instead of the first.
LastCorrelations(events) ==
    SubSeq(events, Max(1, Len(events) - MaxCorrelations + 1), Len(events))

\* Line 2208: correlated_events[:10]
FirstCorrelations(events) ==
    SubSeq(events, 1, Min(MaxCorrelations, Len(events)))

\* Lines 2202-2215: the returned dict.
HuntReturn ==
    /\ pc = "hunt_return"
    /\ hunt_return' = Some(
        [ok |-> TRUE,
         hunt_results |-> hunt_results,
         total_matches |-> Len(all_matches),
         correlated_events |-> Len(correlated_events),
         correlations |-> FirstCorrelations(correlated_events),
         patterns_searched |-> Len(SearchPatterns),
         logs_searched |-> Len(LogPaths),
         logs_with_matches |-> Cardinality({k[1] : k \in DOMAIN hunt_results})])
    /\ pc' = "done"
    /\ UNCHANGED <<correlation_window, search_idx, hunt_results, all_matches,
                   sorted_matches, corr_idx, correlated_events>>

(***************************************************************************)
(* _analyze_log_patterns                                                   *)
(*                                                                         *)
(* The log text is a sequence of tokens: words, the blank " " and the line *)
(* break "\n".  A word is matched as a whole: an alternative of a pattern  *)
(* is found in a line when one of the line's words is that alternative.    *)
(***************************************************************************)

\* Longest log text drawn, in tokens.
MaxLogLen == 4

\* lines[-1000:] and min(1000, len(lines))
TailLines == 1000

\* recent_errors[-10:]
RecentErrorsKept == 10

LogTokens == {"ERROR", "failed", "timeout", "ok", " ", "\n"}

\* The position of the first line break of text, 0 when it has none.
FirstBreak(text) ==
    IF \E k \in 1..Len(text) : text[k] = "\n"
    THEN CHOOSE k \in 1..Len(text) :
            /\ text[k] = "\n"
            /\ \A j \in 1..(k - 1) : text[j] # "\n"
    ELSE 0

\* str.split("\n"): the empty text gives one empty line, and a final line
\* break a final empty line.
RECURSIVE split_newline(_)
split_newline(text) ==
    IF FirstBreak(text) = 0 THEN <<text>>
    ELSE <<SubSeq(text, 1, FirstBreak(text) - 1)>>
         \o split_newline(SubSeq(text, FirstBreak(text) + 1, Len(text)))

\* The positions of the line breaks of text, ascending.
Breaks(text) ==
    SelectSeq([k \in 1..Len(text) |-> k], LAMBDA k : text[k] = "\n")

\* str.splitlines(): no line for the empty text, none after a final line break.
\* The k-th line lies between the (k-1)-th and the k-th line break; what follows
\* the last break is a line unless it is empty.
splitlines(text) ==
    LET b == Breaks(text)
        start(k) == IF k = 1 THEN 1 ELSE b[k - 1] + 1
        count == IF Len(b) = 0 THEN (IF text = <<>> THEN 0 ELSE 1)
                 ELSE IF b[Len(b)] = Len(text) THEN Len(b) ELSE Len(b) + 1
    IN [k \in 1..count |->
           SubSeq(text, start(k), IF k <= Len(b) THEN b[k] - 1 ELSE Len(text))]

\* str.lower() of one token.
LowerToken(w) ==
    CASE w = "ERROR" -> "error"
      [] w = "CRITICAL" -> "critical"
      [] w = "FATAL" -> "fatal"
      [] w = "WARNING" -> "warning"
      [] w = "WARN" -> "warn"
      [] OTHER -> w

\* line.lower()
lower(line) == [k \in 1..Len(line) |-> LowerToken(line[k])]

\* The whitespace tokens.
Whitespace == {" ", "\n"}

\* str.strip(): without its leading and trailing whitespace.
RECURSIVE strip(_)
strip(line) ==
    IF line = <<>> THEN <<>>
    ELSE IF Head(line) \in Whitespace THEN strip(Tail(line))
    ELSE IF line[Len(line)] \in Whitespace
    THEN strip(SubSeq(line, 1, Len(line) - 1))
    ELSE line

\* Lines 1103-1111: the patterns, each the set of its alternatives, in order.
error_patterns ==
    <<[alternatives |-> {"ERROR", "CRITICAL", "FATAL"}, category |-> "error"],
      [alternatives |-> {"WARNING", "WARN"}, category |-> "warning"],
      [alternatives |-> {"failed", "failure", "exception"}, category |-> "failure"],
      [alternatives |-> {"timeout", "timed out"}, category |-> "timeout"],
      [alternatives |-> {"connection refused", "connection reset"},
       category |-> "connection"],
      [alternatives |-> {"out of memory", "oom"}, category |-> "memory"],
      [alternatives |-> {"permission denied", "access denied"},
       category |-> "permission"]>>

\* re.search(pattern, text): case-sensitive, no flags.
re_search(alternatives, text) == \E k \in 1..Len(text) : text[k] \in alternatives

\* pattern_counts[category] += 1 on a defaultdict(int)
Increment(counts, category) ==
    [c \in DOMAIN counts \cup {category} |->
        IF c = category THEN Get(counts, c, 0) + 1 ELSE counts[c]]

\* Lines 1118-1122: the patterns from the k-th on, applied to one line.
RECURSIVE ScanPatterns(_, _, _)
ScanPatterns(line, k, acc) ==
    IF k > Len(error_patterns) THEN acc
    ELSE LET p == error_patterns[k]
             hit == re_search(p.alternatives, lower(line))
             next ==
                 IF ~hit THEN acc
                 ELSE [pattern_counts |-> Increment(acc.pattern_counts, p.category),
                       recent_errors |->
                           IF p.category \in {"error", "failure", "timeout"}
                           THEN Append(acc.recent_errors, strip(line))
                           ELSE acc.recent_errors]
         IN ScanPatterns(line, k + 1, next)

\* What two consecutive stretches of lines leave behind, from what each leaves
\* behind on its own: the counts add up, the second stretch's appended lines
\* follow the first's.
MergeScans(a, b) ==
    [pattern_counts |->
         [c \in DOMAIN a.pattern_counts \cup DOMAIN b.pattern_counts |->
             Get(a.pattern_counts, c, 0) + Get(b.pattern_counts, c, 0)],
     recent_errors |-> a.recent_errors \o b.recent_errors]

\* Lines 1116-1122: the loop over the lines, first to last.  The loop only
\* increments counters and appends, so the list is scanned in two halves, the
\* first before the second.
RECURSIVE ScanLines(_)
ScanLines(lines) ==
    IF lines = <<>> THEN [pattern_counts |-> <<>>, recent_errors |-> <<>>]
    ELSE IF Len(lines) = 1
    THEN ScanPatterns(lines[1], 1, [pattern_counts |-> <<>>, recent_errors |-> <<>>])
    ELSE MergeScans(ScanLines(SubSeq(lines, 1, Len(lines) \div 2)),
                    ScanLines(SubSeq(lines, (Len(lines) \div 2) + 1, Len(lines))))

\* s[:n], what a buffer that stops at n entries would keep.
FirstN(s, n) == SubSeq(s, 1, Min(n, Len(s)))

\* s[-n:]
LastN(s, n) == SubSeq(s, Max(1, Len(s) - n + 1), Len(s))

RECURSIVE SumValues(_)
SumValues(counts) ==
    IF DOMAIN counts = {} THEN 0
    ELSE LET c == CHOOSE x \in DOMAIN counts : TRUE
         IN counts[c] + SumValues([x \in DOMAIN counts \ {c} |-> counts[x]])

\* A divisor taken over every line of the text.
ErrorRateDivisorAllLines(lines) == Max(1, Len(lines))

\* The divisor of error_rate: max(1, len(lines[-1000:]))
ErrorRateDivisor(lines) == Max(1, Len(LastN(lines, TailLines)))

\* Lines 1098-1129.  error_rate is the fraction num / den (sum / divisor * 100);
\* a divisor of 0 raises ZeroDivisionError, and the call has no result.
_analyze_log_patterns(text) ==
    LET lines == splitlines(text)
        acc == ScanLines(LastN(lines, TailLines))
    IN IF ErrorRateDivisor(lines) = 0 THEN None
       ELSE Some(
           [pattern_counts |-> acc.pattern_counts,
            recent_errors |-> LastN(acc.recent_errors, RecentErrorsKept),
            total_lines_analyzed |-> Min(TailLines, Len(lines)),
            error_rate |-> [num |-> SumValues(acc.pattern_counts) * 100,
                            den |-> ErrorRateDivisor(lines)]])

LogIdle ==
    /\ logs = <<>>
    /\ analysis = None

LogInit ==
    /\ pc = "log_start"
    /\ logs \in SeqsUpTo(LogTokens, MaxLogLen)
    /\ analysis = None

\* Most lines of a text drawn line by line.
MaxLogLines == 6

\* Most lines drawn before, and after, the filler of a long text.
MaxEdgeLines == 1

\* Whole lines: one that matches "failure", one that matches nothing, one that
\* matches "timeout" and "failure" and carries blanks around it.
LogLineChoices ==
    {<<"failed">>, <<"ok">>, <<" ", "timeout", " ", "failed", " ">>}

\* "\n".join(lines)
RECURSIVE JoinLines(_)
JoinLines(lines) ==
    IF lines = <<>> THEN <<>>
    ELSE IF Len(lines) = 1 THEN lines[1]
    ELSE JoinLines(SubSeq(lines, 1, Len(lines) \div 2)) \o <<"\n">>
         \o JoinLines(SubSeq(lines, (Len(lines) \div 2) + 1, Len(lines)))

\* A text of up to MaxLogLines whole lines.
LogLinesInit ==
    /\ pc = "log_start"
    /\ \E ls \in SeqsUpTo(LogLineChoices, MaxLogLines) : logs = JoinLines(ls)
    /\ analysis = None

\* n lines that match no pattern.
Filler(n) == [k \in 1..n |-> <<"ok">>]

\* How many filler lines a text has: none, or around lines[-1000:]'s length.
FillerCounts == {0} \cup (TailLines - 2)..(TailLines + 1)

\* A long text: a few drawn lines, the filler, a few drawn lines.
LogTailInit ==
    /\ pc = "log_start"
    /\ \E head \in SeqsUpTo(LogLineChoices, MaxEdgeLines),
          tail \in SeqsUpTo(LogLineChoices, MaxEdgeLines),
          n \in FillerCounts :
           logs = JoinLines(head \o Filler(n) \o tail)
    /\ analysis = None

\* One call of _analyze_log_patterns on the drawn text.
LogAnalyze ==
    /\ pc = "log_start"
    /\ analysis' = _analyze_log_patterns(logs)
    /\ pc' = IF _analyze_log_patterns(logs) = None THEN "raised" ELSE "done"
    /\ UNCHANGED logs

(***************************************************************************)
(* ansible_diagnose_host                                                   *)
(*                                                                         *)
(* The stdout of a probe is a sequence of tokens, as the log text is: a    *)
(* numeral, a word, the blank or the line break.  A string the handler     *)
(* stores ("unknown", a stripped stdout) is a sequence of tokens too.      *)
(***************************************************************************)

\* Most lines the system probe prints.
MaxSystemLines == 3

CheckCategories == {"system", "network", "security", "performance"}

\* The numerals the probes print, and the number each stands for.
Numerals ==
    {"0", "1", "2", "3", "4", "7", "11", "40", "50", "90", "96", "100", "120"}

NumeralValue(t) ==
    CASE t = "0" -> 0 [] t = "1" -> 1 [] t = "2" -> 2 [] t = "3" -> 3
      [] t = "4" -> 4 [] t = "7" -> 7 [] t = "11" -> 11 [] t = "40" -> 40
      [] t = "50" -> 50 [] t = "90" -> 90 [] t = "96" -> 96
      [] t = "100" -> 100 [] t = "120" -> 120

\* float(text) and int(text) raise ValueError unless text is one numeral.
IsNumber(text) == Len(text) = 1 /\ text[1] \in Numerals

Number(text) == NumeralValue(text[1])

\* The position of the first sep of text, 0 when it has none.
Find(text, sep) ==
    IF \E k \in 1..Len(text) : text[k] = sep
    THEN CHOOSE k \in 1..Len(text) :
            /\ text[k] = sep
            /\ \A j \in 1..(k - 1) : text[j] # sep
    ELSE 0

\* str.split(sep): the empty text gives one empty field.
RECURSIVE split(_, _)
split(text, sep) ==
    IF Find(text, sep) = 0 THEN <<text>>
    ELSE <<SubSeq(text, 1, Find(text, sep) - 1)>>
         \o split(SubSeq(text, Find(text, sep) + 1, Len(text)), sep)

\* d[k] = v on a dict.
Put(d, k, v) == [x \in DOMAIN d \cup {k} |-> IF x = k THEN v ELSE d[x]]

\* a.update(b) on dicts.
Update(a, b) ==
    [x \in DOMAIN a \cup DOMAIN b |-> IF x \in DOMAIN b THEN b[x] ELSE a[x]]

\* What the three commands of the system probe print: a line each, a number
\* or not.
SystemOutputs ==
    {<<>>} \cup
    {JoinLines(ls) \o <<"\n">> :
        ls \in SeqsUpTo({<<"50">>, <<"96">>, <<"abc">>}, MaxSystemLines) \ {<<>>}}

SystemResults ==
    {[ok |-> TRUE, stdout |-> o] : o \in SystemOutputs}
    \cup {[ok |-> FALSE, stdout |-> <<>>]}

NetworkResults ==
    {[ok |-> TRUE, stdout |-> o] :
        o \in {<<"reachable", "\n">>, <<"unreachable", "\n">>, <<>>}}
    \cup {[ok |-> FALSE, stdout |-> <<>>]}

SecurityResults ==
    {[ok |-> TRUE, stdout |-> o] :
        o \in {<<"3", "\n", "1", "\n">>, <<"3", "\n">>, <<>>}}
    \cup {[ok |-> FALSE, stdout |-> <<>>]}

PerformanceResults ==
    {[ok |-> TRUE, stdout |-> o] : o \in {<<"0.5 0.4 0.3", "\n">>, <<>>}}
    \cup {[ok |-> FALSE, stdout |-> <<>>]}

\* Line 1300: checks or ["system", "network", "security", "performance"]
check_types ==
    IF checks = None \/ Val(checks) = {} THEN CheckCategories ELSE Val(checks)

\* Lines 1319-1321: the exception the three float() calls raise, "none" when
\* they all succeed.  output_lines is never empty, and a line is only read
\* when it exists.
SystemParseError(output_lines) ==
    IF \E k \in 1..Min(3, Len(output_lines)) : ~IsNumber(output_lines[k])
    THEN "ValueError"
    ELSE "none"

\* An except clause that leaves ValueError out.
SystemCaughtIndexErrorOnly == {"IndexError"}

\* Line 1328: except (ValueError, IndexError)
SystemCaught == {"ValueError", "IndexError"}

\* Lines 1316-1331: the entry of the system category.
SystemMetrics(result) ==
    IF result.ok
    THEN LET output_lines == split(strip(result.stdout), "\n")
         IN IF SystemParseError(output_lines) # "none"
            THEN [error |-> "Failed to parse system metrics"]
            ELSE [disk_usage_percent |-> Number(output_lines[1]),
                  memory_percent |->
                      IF Len(output_lines) > 1 THEN Number(output_lines[2]) ELSE 0,
                  cpu_percent |->
                      IF Len(output_lines) > 2 THEN Number(output_lines[3]) ELSE 0]
    ELSE [error |-> "Failed to gather system metrics"]

\* NetworkMetrics under the key the health score reads.
NetworkMetricsScoredKey(result) ==
    [network_reachable |->
        IF result.ok THEN strip(result.stdout) = <<"reachable">> ELSE FALSE]

\* Lines 1346-1348
NetworkMetrics(result) ==
    [internet_reachable |->
        IF result.ok THEN strip(result.stdout) = <<"reachable">> ELSE FALSE]

\* Lines 1361-1364
SecurityMetrics(result) ==
    [recent_logins |->
        IF result.ok THEN split(strip(result.stdout), "\n")[1]
        ELSE <<"unknown">>,
     network_services |->
        IF result.ok /\ Len(split(strip(result.stdout), "\n")) > 1
        THEN split(strip(result.stdout), "\n")[2]
        ELSE <<"unknown">>]

\* Lines 1377-1379
PerformanceMetrics(result) ==
    [load_average |-> IF result.ok THEN strip(result.stdout) ELSE <<"unknown">>]

\* Lines 1383-1386: the entries without an "error" key, merged in the order
\* the categories were stored.
RECURSIVE MergeChecks(_, _)
MergeChecks(entries, order) ==
    IF order = <<>> THEN <<>>
    ELSE LET c == order[Len(order)]
             before == MergeChecks(entries, SubSeq(order, 1, Len(order) - 1))
         IN IF c \in DOMAIN entries /\ "error" \notin DOMAIN entries[c]
            THEN Update(before, entries[c])
            ELSE before

all_metrics(entries) ==
    MergeChecks(entries, <<"system", "network", "security", "performance">>)

DiagIdle ==
    /\ checks = None
    /\ include_recommendations = None
    /\ probes = <<>>
    /\ diagnosis = <<>>
    /\ diagnose_return = None

DiagInit ==
    /\ pc = "diag_system"
    /\ checks \in {None} \cup {Some(c) : c \in SUBSET CheckCategories}
    /\ include_recommendations \in {Some(TRUE), Some(FALSE), None}
    /\ probes = <<>>
    /\ diagnosis = [checks |-> <<>>, health_score |-> None]
    /\ diagnose_return = None

\* Lines 1303-1333.  An exception the except clause does not name leaves the
\* handler.
DiagSystem ==
    /\ pc = "diag_system"
    /\ IF "system" \in check_types
       THEN \E result \in SystemResults :
               LET raised == IF result.ok
                             THEN SystemParseError(
                                      split(strip(result.stdout), "\n"))
                             ELSE "none"
               IN /\ probes' = Put(probes, "system", result)
                  /\ IF raised # "none" /\ raised \notin SystemCaught
                     THEN /\ pc' = "raised"
                          /\ UNCHANGED diagnosis
                     ELSE /\ pc' = "diag_network"
                          /\ diagnosis' =
                                [diagnosis EXCEPT
                                    !.checks = Put(@, "system", SystemMetrics(result))]
       ELSE /\ pc' = "diag_network"
            /\ UNCHANGED <<probes, diagnosis>>
    /\ UNCHANGED <<checks, include_recommendations, diagnose_return>>

\* Lines 1335-1348
DiagNetwork ==
    /\ pc = "diag_network"
    /\ IF "network" \in check_types
       THEN \E result \in NetworkResults :
               /\ probes' = Put(probes, "network", result)
               /\ diagnosis' =
                     [diagnosis EXCEPT
                         !.checks = Put(@, "network", NetworkMetrics(result))]
       ELSE UNCHANGED <<probes, diagnosis>>
    /\ pc' = "diag_security"
    /\ UNCHANGED <<checks, include_recommendations, diagnose_return>>

\* Lines 1350-1364
DiagSecurity ==
    /\ pc = "diag_security"
    /\ IF "security" \in check_types
       THEN \E result \in SecurityResults :
               /\ probes' = Put(probes, "security", result)
               /\ diagnosis' =
                     [diagnosis EXCEPT
                         !.checks = Put(@, "security", SecurityMetrics(result))]
       ELSE UNCHANGED <<probes, diagnosis>>
    /\ pc' = "diag_performance"
    /\ UNCHANGED <<checks, include_recommendations, diagnose_return>>

\* Lines 1366-1379
DiagPerformance ==
    /\ pc = "diag_performance"
    /\ IF "performance" \in check_types
       THEN \E result \in PerformanceResults :
               /\ probes' = Put(probes, "performance", result)
               /\ diagnosis' =
                     [diagnosis EXCEPT
                         !.checks =
                             Put(@, "performance", PerformanceMetrics(result))]
       ELSE UNCHANGED <<probes, diagnosis>>
    /\ pc' = "diag_return"
    /\ UNCHANGED <<checks, include_recommendations, diagnose_return>>

\* Lines 1381-1396: the health score when asked for, and the return.
DiagReturn ==
    /\ pc = "diag_return"
    /\ diagnosis' =
          IF Truthy(include_recommendations)
          THEN [diagnosis EXCEPT
                   !.health_score =
                       Some(_calculate_health_score(all_metrics(diagnosis.checks)))]
          ELSE diagnosis
    /\ diagnose_return' = Some([ok |-> TRUE, diagnosis |-> diagnosis'])
    /\ pc' = "done"
    /\ UNCHANGED <<checks, include_recommendations, probes>>

(***************************************************************************)
(* ansible_security_audit                                                  *)
(*                                                                         *)
(* Every category runs two probes and stores the stripped stdout of each,  *)
(* whatever the ok flag of the probe is.                                   *)
(***************************************************************************)

AuditCategories == {"packages", "permissions", "network", "config"}

\* What a counting probe prints: a count and a line break, nothing at all (the
\* command did not run), or a message instead of a count.
CountOutputs(counts) ==
    {<<n, "\n">> : n \in counts} \cup {<<>>, <<"abc", "\n">>}

\* The result of a probe that printed stdout: rc is 0 unless nothing came out.
ProbeResult(stdout) == [ok |-> stdout # <<>>, stdout |-> stdout]

SecurityUpdateOutputs == CountOutputs({"0", "1", "7"})

WorldWritableOutputs == CountOutputs({"0", "1", "11"})

InsecureServiceOutputs == CountOutputs({"0", "1", "2", "7"})

\* The probes whose output is stored and not scored.
OtherOutputs == {<<"3", "\n">>, <<>>}

SshConfigOutputs == {<<"PermitRootLogin no", "\n">>}

\* Line 1746: audit_categories or ["packages", "permissions", "network", "config"]
categories ==
    IF audit_categories = None \/ Val(audit_categories) = {}
    THEN AuditCategories
    ELSE Val(audit_categories)

\* Lines 1865, 1871, 1877: the result key each scored category reads.
ScoredKey(category) ==
    CASE category = "packages" -> "security_updates_available"
      [] category = "permissions" -> "world_writable_files"
      [] category = "network" -> "insecure_services"

\* The stored categories that the scoring loop converts with int().
ScoredCategories(stored) == DOMAIN stored \cap {"packages", "permissions", "network"}

\* int(...) raises ValueError on a stored output that is not one numeral.
IntRaises(stored) ==
    \E c \in ScoredCategories(stored) : ~IsNumber(stored[c][ScoredKey(c)])

\* The counter of a scored category, 0 when the category was not audited.
Counter(stored, category) ==
    IF category \in DOMAIN stored
    THEN Number(stored[category][ScoredKey(category)])
    ELSE 0

\* Lines 1866-1867
PackagesDeduction(security_updates) ==
    IF security_updates > 0 THEN Min(security_updates * 5, 30) ELSE 0

\* Lines 1872-1873
PermissionsDeduction(world_writable) ==
    IF world_writable > 0 THEN Min(world_writable * 2, 20) ELSE 0

\* A deduction for insecure services capped as the other two are.
NetworkDeductionCapped(insecure_services) ==
    IF insecure_services > 0 THEN Min(insecure_services * 15, 30) ELSE 0

\* Lines 1878-1879
NetworkDeduction(insecure_services) ==
    IF insecure_services > 0 THEN insecure_services * 15 ELSE 0

\* Lines 1859-1879: security_score after the loop.
security_score(stored) ==
    100 - PackagesDeduction(Counter(stored, "packages"))
        - PermissionsDeduction(Counter(stored, "permissions"))
        - NetworkDeduction(Counter(stored, "network"))

\* Lines 1860-1880: the recommendations, in the order of the categories.
AuditRecommendations(stored) ==
    (IF Counter(stored, "packages") > 0
     THEN <<Fmt("Apply ", Counter(stored, "packages"),
                " security updates immediately")>>
     ELSE <<>>)
    \o (IF Counter(stored, "permissions") > 0
        THEN <<Fmt("Fix ", Counter(stored, "permissions"),
                   " world-writable files")>>
        ELSE <<>>)
    \o (IF Counter(stored, "network") > 0
        THEN <<Text("Disable insecure network services")>>
        ELSE <<>>)

\* Line 1884
SecurityLevel(score) ==
    IF score < 40 THEN "critical" ELSE IF score < 70 THEN "warning" ELSE "good"

\* Lines 1882-1886
SecurityAssessment(stored) ==
    [score |-> Max(0, security_score(stored)),
     level |-> SecurityLevel(security_score(stored)),
     recommendations |-> AuditRecommendations(stored)]

AuditIdle ==
    /\ audit_categories = None
    /\ generate_report = None
    /\ audit_results = <<>>
    /\ audit_return = None

AuditInit ==
    /\ pc = "audit_packages"
    /\ audit_categories \in {None} \cup {Some(c) : c \in SUBSET AuditCategories}
    /\ generate_report \in {Some(TRUE), Some(FALSE), None}
    /\ audit_results = [categories |-> <<>>, security_assessment |-> None]
    /\ audit_return = None

\* Two probes of one category and the entry stored for it.
AuditCategory(category, key1, outputs1, key2, outputs2) ==
    IF category \in categories
    THEN \E o1 \in outputs1, o2 \in outputs2 :
            audit_results' =
                [audit_results EXCEPT
                    !.categories =
                        Put(@, category,
                            Put(Put(<<>>, key1, strip(ProbeResult(o1).stdout)),
                                key2, strip(ProbeResult(o2).stdout)))]
    ELSE UNCHANGED audit_results

\* Lines 1749-1774
AuditPackages ==
    /\ pc = "audit_packages"
    /\ AuditCategory("packages",
                     "security_updates_available", SecurityUpdateOutputs,
                     "total_updates_available", OtherOutputs)
    /\ pc' = "audit_permissions"
    /\ UNCHANGED <<audit_categories, generate_report, audit_return>>

\* Lines 1776-1801
AuditPermissions ==
    /\ pc = "audit_permissions"
    /\ AuditCategory("permissions",
                     "suid_sgid_files", OtherOutputs,
                     "world_writable_files", WorldWritableOutputs)
    /\ pc' = "audit_network"
    /\ UNCHANGED <<audit_categories, generate_report, audit_return>>

\* Lines 1803-1828
AuditNetwork ==
    /\ pc = "audit_network"
    /\ AuditCategory("network",
                     "open_ports", OtherOutputs,
                     "insecure_services", InsecureServiceOutputs)
    /\ pc' = "audit_config"
    /\ UNCHANGED <<audit_categories, generate_report, audit_return>>

\* Lines 1830-1855
AuditConfig ==
    /\ pc = "audit_config"
    /\ AuditCategory("config",
                     "ssh_config", SshConfigOutputs,
                     "password_policies", OtherOutputs)
    /\ pc' = "audit_report"
    /\ UNCHANGED <<audit_categories, generate_report, audit_return>>

\* Lines 1857-1893: the assessment when asked for, and the return.
AuditReturn ==
    /\ pc = "audit_report"
    /\ ~(Truthy(generate_report) /\ IntRaises(audit_results.categories))
    /\ audit_results' =
          IF Truthy(generate_report)
          THEN [audit_results EXCEPT
                   !.security_assessment =
                       Some(SecurityAssessment(audit_results.categories))]
          ELSE audit_results
    /\ audit_return' = Some([ok |-> TRUE, audit |-> audit_results'])
    /\ pc' = "done"
    /\ UNCHANGED <<audit_categories, generate_report>>

\* Lines 1865, 1871, 1877: int() raises ValueError and nothing catches it.
AuditReportRaise ==
    /\ pc = "audit_report"
    /\ Truthy(generate_report)
    /\ IntRaises(audit_results.categories)
    /\ pc' = "raised"
    /\ UNCHANGED <<audit_categories, generate_report, audit_results, audit_return>>

(***************************************************************************)
(* ansible_health_monitor                                                  *)
(*                                                                         *)
(* Numbers are integers; a quotient the handler compares with a threshold  *)
(* is compared after cross-multiplication, and an average is kept as the   *)
(* fraction num / den.                                                     *)
(***************************************************************************)

\* Most collection points of a drawn call.
MaxSamples == 3

\* Line 1897: the default of monitoring_duration, and `or 300` of line 1911.
DefaultDuration == 300

\* Line 1897: the default of metrics_interval, and `or 30` of line 1912.
DefaultInterval == 30

\* Line 1911: monitoring_duration or 300 (None and 0 are falsy).
duration ==
    IF monitoring_duration = None \/ monitoring_duration = Some(0)
    THEN DefaultDuration
    ELSE Val(monitoring_duration)

\* Line 1912: metrics_interval or 30
interval ==
    IF metrics_interval = None \/ metrics_interval = Some(0)
    THEN DefaultInterval
    ELSE Val(metrics_interval)

\* Line 1913: duration // interval, both positive.
collection_points == duration \div interval

Durations == {None, Some(0), Some(29), Some(60), Some(90), Some(120)}

Intervals == {None, Some(0), Some(30), Some(100), Some(150)}

\* What the sample probe prints: timestamp,load,memory,disk; three fields only;
\* a load that is not a number; nothing.
SampleOutputs ==
    {<<"t", ",", "1", ",", "50", ",", "40", "\n">>,
     <<"t", ",", "4", ",", "90", ",", "40", "\n">>,
     <<"t", ",", "1", ",", "50", "\n">>,
     <<"t", ",", "abc", ",", "50", ",", "40", "\n">>,
     <<>>}

SampleResults ==
    {[ok |-> TRUE, stdout |-> o] : o \in SampleOutputs}
    \cup {[ok |-> FALSE, stdout |-> <<>>]}

\* Lines 1931-1936: the exception the unpacking and the three float() calls
\* raise, "none" when they all succeed.
SampleParseError(fields) ==
    IF Len(fields) # 4 THEN "ValueError"
    ELSE IF \E k \in 2..4 : ~IsNumber(fields[k]) THEN "ValueError"
    ELSE "none"

\* Lines 1932-1937
Sample(fields) ==
    [timestamp |-> fields[1],
     load_average |-> Number(fields[2]),
     memory_percent |-> Number(fields[3]),
     disk_percent |-> Number(fields[4])]

RECURSIVE SumOf(_, _)
SumOf(history, field) ==
    IF history = <<>> THEN 0
    ELSE history[1][field] + SumOf(Tail(history), field)

\* Lines 1964-1965: the trend of a difference over n samples against the
\* threshold tenths / 10.
Trend(difference, n, tenths) ==
    IF 10 * difference > tenths * n THEN "increasing"
    ELSE IF 10 * difference < -(tenths * n) THEN "decreasing"
    ELSE "stable"

\* Lines 1956-1961: value > average * 1.5 for the load, * 1.3 for the memory.
RECURSIVE Anomalies(_, _, _, _)
Anomalies(history, k, load_sum, memory_sum) ==
    IF k > Len(history) THEN <<>>
    ELSE (IF history[k].load_average * Len(history) * 10 > load_sum * 15
          THEN <<Fmt("High load spike at ", history[k].timestamp,
                     history[k].load_average)>>
          ELSE <<>>)
         \o (IF history[k].memory_percent * Len(history) * 10 > memory_sum * 13
             THEN <<Fmt("Memory spike at ", history[k].timestamp,
                        history[k].memory_percent)>>
             ELSE <<>>)
         \o Anomalies(history, k + 1, load_sum, memory_sum)

\* Lines 1943-1971
trend_analysis(history) ==
    IF Len(history) > 1
    THEN LET n == Len(history)
             first == history[1]
             last == history[n]
         IN [load_trend |->
                 Trend(last.load_average - first.load_average, n, 1),
             memory_trend |->
                 Trend(last.memory_percent - first.memory_percent, n, 10),
             anomalies |->
                 Anomalies(history, 1, SumOf(history, "load_average"),
                           SumOf(history, "memory_percent")),
             average_load |-> [num |-> SumOf(history, "load_average"), den |-> n],
             average_memory |->
                 [num |-> SumOf(history, "memory_percent"), den |-> n]]
    ELSE [error |-> "Insufficient data for trend analysis"]

ProbeEvent(result) == [kind |-> "probe", result |-> Some(result), seconds |-> 0]

SleepEvent(seconds) == [kind |-> "sleep", result |-> None, seconds |-> seconds]

MonitorIdle ==
    /\ monitoring_duration = None
    /\ metrics_interval = None
    /\ sample_idx = 0
    /\ metrics_history = <<>>
    /\ monitor_events = <<>>
    /\ monitor_return = None

MonitorInit ==
    /\ pc = "monitor_loop"
    /\ monitoring_duration \in Durations
    /\ metrics_interval \in Intervals
    /\ collection_points <= MaxSamples
    /\ sample_idx = 0
    /\ metrics_history = <<>>
    /\ monitor_events = <<>>
    /\ monitor_return = None

\* Lines 1919-1941: one iteration whose sample, if any, parses: the probe, the
\* sample appended when the probe is ok, the sleep unless it is the last one.
MonitorSample ==
    /\ pc = "monitor_loop"
    /\ sample_idx < collection_points
    /\ \E result \in SampleResults :
        LET fields == split(strip(result.stdout), ",")
        IN /\ result.ok => SampleParseError(fields) = "none"
           /\ metrics_history' =
                 IF result.ok THEN Append(metrics_history, Sample(fields))
                 ELSE metrics_history
           /\ monitor_events' =
                 Append(monitor_events, ProbeEvent(result))
                 \o (IF sample_idx < collection_points - 1
                     THEN <<SleepEvent(interval)>>
                     ELSE <<>>)
    /\ sample_idx' = sample_idx + 1
    /\ UNCHANGED <<pc, monitoring_duration, metrics_interval, monitor_return>>

\* Lines 1930-1936: the probe is ok and its output does not parse; nothing
\* catches the ValueError.
MonitorSampleRaise ==
    /\ pc = "monitor_loop"
    /\ sample_idx < collection_points
    /\ \E result \in SampleResults :
        /\ result.ok
        /\ SampleParseError(split(strip(result.stdout), ",")) # "none"
        /\ monitor_events' = Append(monitor_events, ProbeEvent(result))
    /\ pc' = "raised"
    /\ UNCHANGED <<monitoring_duration, metrics_interval, sample_idx,
                   metrics_history, monitor_return>>

\* Lines 1943-1983
MonitorReturn ==
    /\ pc = "monitor_loop"
    /\ sample_idx >= collection_points
    /\ monitor_return' =
          Some([ok |-> TRUE,
                monitoring |->
                    [duration_seconds |-> duration,
                     data_points |-> Len(metrics_history),
                     metrics_history |-> metrics_history,
                     trend_analysis |-> trend_analysis(metrics_history)]])
    /\ pc' = "done"
    /\ UNCHANGED <<monitoring_duration, metrics_interval, sample_idx,
                   metrics_history, monitor_events>>

(***************************************************************************)
(* ansible_performance_baseline, lines 1986-2095.                          *)
(***************************************************************************)

DefaultBenchmarkDuration == 60

BenchmarkDurations == {None, Some(0), Some(30)}
StoreBaselines == {None, Some(TRUE), Some(FALSE)}

\* What the benchmark commands print.
CpuOutputs == {<<>>, <<"0m1.5s", "\n">>}
MemoryOutputs ==
    {<<>>,
     <<"50", " ", "MB/s", "\n">>,
     <<"100", " ", "MB/s", "\n">>,
     <<"120", " ", "MB/s", "\n">>,
     <<" ", "MB/s", "\n">>,
     <<"2", " ", "GB/s", "\n">>}
DiskOutputs == {<<>>, <<"90", " ", "MB/s", "\n">>}
LatencyOutputs == {<<>>, <<"0.4", "\n">>}
LoadOutputs == {<<>>, <<"1", "\n">>, <<"2", "\n">>, <<"3", "\n">>, <<"abc", "\n">>}

\* The identifiers _generate_snapshot_id can give (lines 1091-1095).
SnapshotIds == {"snapshot_a", "snapshot_b"}

\* str.split() without a separator: the fields between runs of whitespace.
RECURSIVE split_whitespace(_)
split_whitespace(text) ==
    IF text = <<>> THEN <<>>
    ELSE IF Head(text) \in Whitespace THEN split_whitespace(Tail(text))
    ELSE LET stops == {k \in 1..Len(text) : text[k] \in Whitespace}
             n == IF stops = {} THEN Len(text) + 1
                  ELSE CHOOSE k \in stops : \A j \in stops : k <= j
         IN <<SubSeq(text, 1, n - 1)>>
            \o split_whitespace(SubSeq(text, n, Len(text)))

\* "MB/s" in text
HasUnit(text) == \E k \in 1..Len(text) : text[k] = "MB/s"

\* Lines 2066-2070: the load branch; raised when float() raises ValueError.
LoadStep(b) ==
    IF b["system_load"] = <<>>
    THEN [raised |-> FALSE, deduction |-> 0, issues |-> <<>>]
    ELSE IF ~IsNumber(b["system_load"])
    THEN [raised |-> TRUE, deduction |-> 0, issues |-> <<>>]
    ELSE IF Number(b["system_load"]) > 2
    THEN [raised |-> FALSE, deduction |-> 20,
          issues |-> <<"High system load detected">>]
    ELSE [raised |-> FALSE, deduction |-> 0, issues |-> <<>>]

\* Lines 2072-2076: the memory branch.
MemoryStep(b) ==
    IF ~HasUnit(b["memory"])
    THEN [raised |-> FALSE, deduction |-> 0, issues |-> <<>>]
    ELSE IF split_whitespace(b["memory"]) = <<>>
    THEN [raised |-> TRUE, deduction |-> 0, issues |-> <<>>]
    ELSE IF ~IsNumber(split_whitespace(b["memory"])[1])
    THEN [raised |-> TRUE, deduction |-> 0, issues |-> <<>>]
    ELSE IF Number(split_whitespace(b["memory"])[1]) < 100
    THEN [raised |-> FALSE, deduction |-> 15,
          issues |-> <<"Low memory bandwidth">>]
    ELSE [raised |-> FALSE, deduction |-> 0, issues |-> <<>>]

\* Lines 2065-2078: the memory branch runs only when the load branch did not
\* raise; both are inside one try block.
MemoryStepAfter(load, b) ==
    IF load.raised
    THEN [raised |-> FALSE, deduction |-> 0, issues |-> <<>>]
    ELSE MemoryStep(b)

BaselineLevel(score) ==
    IF score > 85 THEN "excellent" ELSE IF score > 70 THEN "good" ELSE "poor"

\* Lines 2060-2084
performance_assessment(b) ==
    LET load == LoadStep(b)
        memory == MemoryStepAfter(load, b)
        score == 100 - load.deduction - memory.deduction
    IN [score |-> score,
        level |-> BaselineLevel(score),
        issues |-> load.issues \o memory.issues \o
            (IF load.raised \/ memory.raised
             THEN <<"Could not parse some benchmark results">> ELSE <<>>)]

BaselineIdle ==
    /\ benchmark_duration = None
    /\ store_baseline = None
    /\ benchmarks = <<>>
    /\ baseline_return = None

BaselineInit ==
    /\ pc = "baseline_cpu"
    /\ benchmark_duration \in BenchmarkDurations
    /\ store_baseline \in StoreBaselines
    /\ benchmarks = <<>>
    /\ baseline_return = None

\* One benchmark through ansible_task: its stripped output is stored under
\* name whether or not the task succeeded.
BaselineBenchmark(at, name, Outputs, next) ==
    /\ pc = at
    /\ \E ok \in BOOLEAN, stdout \in Outputs :
        benchmarks' = Put(benchmarks, name, strip(stdout))
    /\ pc' = next
    /\ UNCHANGED <<benchmark_duration, store_baseline, baseline_return>>

\* Lines 2005-2014
BaselineCpu == BaselineBenchmark("baseline_cpu", "cpu", CpuOutputs, "baseline_memory")
\* Lines 2016-2025
BaselineMemory ==
    BaselineBenchmark("baseline_memory", "memory", MemoryOutputs, "baseline_disk")
\* Lines 2027-2036
BaselineDisk ==
    BaselineBenchmark("baseline_disk", "disk_write", DiskOutputs, "baseline_network")
\* Lines 2038-2047
BaselineNetwork ==
    BaselineBenchmark("baseline_network", "network_latency", LatencyOutputs,
                      "baseline_load")
\* Lines 2049-2058
BaselineLoad ==
    BaselineBenchmark("baseline_load", "system_load", LoadOutputs, "baseline_return")

\* Lines 2060-2095: the scoring and the returned dict.
BaselineReturn ==
    /\ pc = "baseline_return"
    /\ \E id \in SnapshotIds :
        baseline_return' = Some(
            [ok |-> TRUE,
             baseline |->
                 [benchmarks |-> benchmarks,
                  performance_assessment |-> performance_assessment(benchmarks),
                  baseline_id |-> IF Truthy(store_baseline) THEN Some(id) ELSE None],
             duration |-> IF benchmark_duration # None /\ Val(benchmark_duration) # 0
                          THEN Val(benchmark_duration)
                          ELSE DefaultBenchmarkDuration])
    /\ pc' = "done"
    /\ UNCHANGED <<benchmark_duration, store_baseline, benchmarks>>

(***************************************************************************)
(* _resolve_project (lines 145-157), _project_from_env (lines 187-207) and *)
(* project_run_playbook (lines 787-808).                                   *)
(***************************************************************************)

ProjectNames == {"web", "db"}

\* The argument project and the saved default: null, empty, a registered
\* name or a name that may not be registered.
ProjectArgs == {None, Some(""), Some("web"), Some("db")}
SavedDefaults == {None, Some(""), Some("web"), Some("db")}
EnvRoots == {None, Some(""), Some("/srv/env"), Some("env")}

\* str(Path(root).expanduser().resolve()): an absolute path stays, a
\* relative one is anchored at the working directory of the server.
Resolve(path) ==
    CASE path = "env" -> "/cwd/env"
      [] OTHER -> path

ProjectDefinition(name, root) == [name |-> name, root |-> root]

\* The registries _load_config can give: each registered name with its root.
Registries ==
    {[n \in S |-> ProjectDefinition(n, "/srv/" \o n)] : S \in SUBSET ProjectNames}

\* dict.get(key): None when the key is missing.
Lookup(d, key) == IF key \in DOMAIN d THEN Some(d[key]) ELSE None

\* Truthiness of an optional string.
NonEmpty(o) == o # None /\ Val(o) # ""

\* Lines 187-207, with MCP_ANSIBLE_PROJECT_NAME unset.
_project_from_env(root) ==
    IF ~NonEmpty(root) THEN None
    ELSE Some(ProjectDefinition("env", Resolve(Val(root))))

\* The saved default asked before the environment.
ResolveDefaultFirst(projects, saved, root, name) ==
    IF NonEmpty(name) THEN Lookup(projects, Val(name))
    ELSE IF NonEmpty(saved) THEN Lookup(projects, Val(saved))
    ELSE IF NonEmpty(root) THEN _project_from_env(root)
    ELSE None

\* Lines 145-157
_resolve_project(projects, saved, root, name) ==
    IF NonEmpty(name) THEN Lookup(projects, Val(name))
    ELSE IF NonEmpty(root) THEN _project_from_env(root)
    ELSE IF ~NonEmpty(saved) THEN None
    ELSE Lookup(projects, Val(saved))

ProjectIdle ==
    /\ project = None
    /\ env_root = None
    /\ registry = <<>>
    /\ default_project = None
    /\ defn = None
    /\ playbook_run = None
    /\ project_return = None

ProjectInit ==
    /\ pc = "project_resolve"
    /\ project \in ProjectArgs
    /\ env_root \in EnvRoots
    /\ registry \in Registries
    /\ default_project \in SavedDefaults
    /\ defn = None
    /\ playbook_run = None
    /\ project_return = None

\* Lines 790-791
ProjectResolve ==
    /\ pc = "project_resolve"
    /\ defn' = _resolve_project(registry, default_project, env_root, project)
    /\ pc' = "project_resolved"
    /\ UNCHANGED <<project, env_root, registry, default_project, playbook_run,
                   project_return>>

\* Lines 792-793
ProjectNotResolved ==
    /\ pc = "project_resolved"
    /\ defn = None
    /\ project_return' =
         Some([ok |-> FALSE, error |-> "No project specified and no default set"])
    /\ pc' = "done"
    /\ UNCHANGED <<project, env_root, registry, default_project, defn, playbook_run>>

\* Lines 794-808: the playbook run in the root of the project; ok is rc == 0.
ProjectRun ==
    /\ pc = "project_resolved"
    /\ defn # None
    /\ playbook_run' = Some([cwd |-> Val(defn).root])
    /\ \E rc \in {0, 2} :
        project_return' = Some([ok |-> rc = 0, rc |-> rc])
    /\ pc' = "done"
    /\ UNCHANGED <<project, env_root, registry, default_project, defn>>

\* Lines 794-808 with subprocess.Popen raising (line 29): no such root, or no
\* ansible-playbook on the path.
ProjectRunRaise ==
    /\ pc = "project_resolved"
    /\ defn # None
    /\ playbook_run' = Some([cwd |-> Val(defn).root])
    /\ pc' = "raised"
    /\ UNCHANGED <<project, env_root, registry, default_project, defn,
                   project_return>>

(***************************************************************************)
(* The vault tools, lines 652-731.                                         *)
(***************************************************************************)

VaultTools == {"encrypt", "decrypt", "view", "rekey"}

Passwords == {None, Some(""), Some("s3cret")}
PasswordFiles == {None, Some(""), Some("/keys/old.pwd")}
NewPasswords == {None, Some(""), Some("n3w")}
NewPasswordFiles == {None, Some(""), Some("/keys/new.pwd")}
EnvPasswords == {None, Some("envpw")}
EnvPasswordFiles == {None, Some("/keys/env.pwd")}

\* The names tempfile.NamedTemporaryFile gives, in the order of creation.
TempNames == <<"/tmp/vault_a.pwd", "/tmp/vault_b.pwd">>

\* The exit codes of ansible-vault.
ExitCodes == {0, 1}

\* How a run ends: with an exit code, or with an exception and no exit code.
Exited(rc) == [raised |-> FALSE, rc |-> rc]
Raised == [raised |-> TRUE, rc |-> 0]

\* Lines 667-678
_resolve_vault_pw_args(pw, pw_file) ==
    IF NonEmpty(pw_file)
    THEN [args |-> <<"--vault-password-file", Val(pw_file)>>, inline |-> None]
    ELSE IF NonEmpty(pw)
    THEN [args |-> <<"--vault-password-file", "__TEMPFILE__">>, inline |-> pw]
    ELSE IF NonEmpty(env_password)
    THEN [args |-> <<"--vault-password-file", "__TEMPFILE__">>,
          inline |-> env_password]
    ELSE IF NonEmpty(env_password_file)
    THEN [args |-> <<"--vault-password-file", Val(env_password_file)>>,
          inline |-> None]
    ELSE [args |-> <<>>, inline |-> None]

\* [a if a != placeholder else value for a in args]
Substitute(args, placeholder, value) ==
    [k \in 1..Len(args) |-> IF args[k] = placeholder THEN value ELSE args[k]]

\* `inline or ""`
OrEmpty(inline) == IF inline = None THEN "" ELSE Val(inline)

old_resolved == _resolve_vault_pw_args(password, password_file)
new_resolved == _resolve_vault_pw_args(new_password, new_password_file)

\* Line 717
rekey_subcmd ==
    <<"rekey", "secrets.yml">>
    \o (IF new_resolved.inline # None \/ NonEmpty(new_password_file)
        THEN <<"--new-vault-password-file", "__TEMPFILE_NEW__">> ELSE <<>>)
    \o old_resolved.args

\* Line 719: `if inline_old or inline_new:`
RekeyInline == old_resolved.inline # None \/ new_resolved.inline # None

\* The contents of the temporary files the call writes, in order: one for
\* _run_vault_cmd with an inline password (line 688), two for vault_rekey with
\* an inline password (line 720), none otherwise.
TempContents ==
    IF vault_tool = "rekey"
    THEN IF RekeyInline
         THEN <<OrEmpty(old_resolved.inline), OrEmpty(new_resolved.inline)>>
         ELSE <<>>
    ELSE IF old_resolved.inline # None THEN <<Val(old_resolved.inline)>> ELSE <<>>

\* The command line of the run: lines 685 and 689-690 for _run_vault_cmd, lines
\* 721-724 and 728 for vault_rekey.
VaultCommand ==
    IF vault_tool = "rekey"
    THEN IF RekeyInline
         THEN <<"ansible-vault">> \o
              Substitute(Substitute(rekey_subcmd, "__TEMPFILE_NEW__", TempNames[2]),
                         "__TEMPFILE__", TempNames[1])
         ELSE <<"ansible-vault">> \o
              Substitute(rekey_subcmd, "__TEMPFILE_NEW__",
                         IF new_resolved.args # <<>> THEN new_resolved.args[2] ELSE "")
    ELSE <<"ansible-vault", vault_tool, "secrets.yml">> \o
         Substitute(old_resolved.args, "__TEMPFILE__", TempNames[1])

\* os.remove(name)
os_remove(files, name) == [n \in DOMAIN files \ {name} |-> files[n]]

\* Only the context manager entered last is left.
ExitLastContext(files) ==
    IF files = <<>> THEN files
    ELSE os_remove(files, TempNames[Cardinality(DOMAIN files)])

\* Lines 660-664: leaving the with statement runs the finally block of every
\* context manager entered, each removing its file.
RECURSIVE ExitContexts(_)
ExitContexts(files) ==
    IF files = <<>> THEN files
    ELSE ExitContexts(os_remove(files, TempNames[Cardinality(DOMAIN files)]))

VaultIdle ==
    /\ vault_tool = ""
    /\ password = None
    /\ password_file = None
    /\ new_password = None
    /\ new_password_file = None
    /\ env_password = None
    /\ env_password_file = None
    /\ tempfiles = <<>>
    /\ vault_run = None
    /\ vault_outcome = None
    /\ vault_return = None

VaultInit ==
    /\ pc = "vault_open"
    /\ vault_tool \in VaultTools
    /\ password \in Passwords
    /\ password_file \in PasswordFiles
    /\ new_password \in IF vault_tool = "rekey" THEN NewPasswords ELSE {None}
    /\ new_password_file \in IF vault_tool = "rekey" THEN NewPasswordFiles ELSE {None}
    /\ env_password \in EnvPasswords
    /\ env_password_file \in EnvPasswordFiles
    /\ tempfiles = <<>>
    /\ vault_run = None
    /\ vault_outcome = None
    /\ vault_return = None

\* Lines 654-659: the next context manager is entered, its file created and
\* the password written to it.
VaultOpen ==
    /\ pc = "vault_open"
    /\ Cardinality(DOMAIN tempfiles) < Len(TempContents)
    /\ LET k == Cardinality(DOMAIN tempfiles) + 1
       IN tempfiles' = Put(tempfiles, TempNames[k], TempContents[k])
    /\ UNCHANGED <<pc, vault_tool, password, password_file, new_password,
                   new_password_file, env_password, env_password_file, vault_run,
                   vault_outcome, vault_return>>

\* Lines 654-664 with the write raising OSError: the finally block removes the
\* file just created, and the context managers entered before are left.
VaultOpenRaise ==
    /\ pc = "vault_open"
    /\ Cardinality(DOMAIN tempfiles) < Len(TempContents)
    /\ tempfiles' = ExitContexts(tempfiles)
    /\ vault_outcome' = Some(Raised)
    /\ pc' = "raised"
    /\ UNCHANGED <<vault_tool, password, password_file, new_password,
                   new_password_file, env_password, env_password_file, vault_run,
                   vault_return>>

\* Lines 685, 690, 724 and 729: _run_command, the process ending with an exit
\* code or subprocess.Popen raising (line 29).
VaultRun ==
    /\ pc = "vault_open"
    /\ Cardinality(DOMAIN tempfiles) = Len(TempContents)
    /\ vault_run' = Some([command |-> VaultCommand, files |-> tempfiles])
    /\ \E outcome \in {Exited(rc) : rc \in ExitCodes} \cup {Raised} :
        vault_outcome' = Some(outcome)
    /\ pc' = "vault_exit"
    /\ UNCHANGED <<vault_tool, password, password_file, new_password,
                   new_password_file, env_password, env_password_file, tempfiles,
                   vault_return>>

\* Lines 686, 691, 725 and 730: the return, through the finally blocks of the
\* with statement when there is one.
VaultReturn ==
    /\ pc = "vault_exit"
    /\ ~Val(vault_outcome).raised
    /\ tempfiles' = ExitContexts(tempfiles)
    /\ vault_return' = Some([ok |-> Val(vault_outcome).rc = 0,
                             rc |-> Val(vault_outcome).rc,
                             command |-> Val(vault_run).command])
    /\ pc' = "done"
    /\ UNCHANGED <<vault_tool, password, password_file, new_password,
                   new_password_file, env_password, env_password_file, vault_run,
                   vault_outcome>>

\* The exception of _run_command leaving the call, through the same finally
\* blocks.
VaultRaise ==
    /\ pc = "vault_exit"
    /\ Val(vault_outcome).raised
    /\ tempfiles' = ExitContexts(tempfiles)
    /\ pc' = "raised"
    /\ UNCHANGED <<vault_tool, password, password_file, new_password,
                   new_password_file, env_password, env_password_file, vault_run,
                   vault_outcome, vault_return>>

(***************************************************************************)
(* The specifications, one per tool.                                       *)
(***************************************************************************)

HealNext ==
    \/ HealPlan /\ UNCHANGED <<scoreVars, huntVars, logVars, diagVars, auditVars, monitorVars, baselineVars, projectVars, vaultVars>>
    \/ HealSafetyCheck /\ UNCHANGED <<scoreVars, huntVars, logVars, diagVars, auditVars, monitorVars, baselineVars, projectVars, vaultVars>>
    \/ HealExecute /\ UNCHANGED <<scoreVars, huntVars, logVars, diagVars, auditVars, monitorVars, baselineVars, projectVars, vaultVars>>
    \/ HealReturn /\ UNCHANGED <<scoreVars, huntVars, logVars, diagVars, auditVars, monitorVars, baselineVars, projectVars, vaultVars>>

HealSpecInit == HealInit /\ ScoreIdle /\ HuntIdle /\ LogIdle /\ DiagIdle /\ AuditIdle /\ MonitorIdle /\ BaselineIdle /\ ProjectIdle /\ VaultIdle

SpecHeal == HealSpecInit /\ [][HealNext]_vars

ScoreNext == ScoreCall /\ UNCHANGED <<healVars, huntVars, logVars, diagVars, auditVars, monitorVars, baselineVars, projectVars, vaultVars>>

ScoreSpecInit == ScoreInit /\ HealIdle /\ HuntIdle /\ LogIdle /\ DiagIdle /\ AuditIdle /\ MonitorIdle /\ BaselineIdle /\ ProjectIdle /\ VaultIdle

SpecScore == ScoreSpecInit /\ [][ScoreNext]_vars

HuntNext ==
    \/ HuntSearch /\ UNCHANGED <<healVars, scoreVars, logVars, diagVars, auditVars, monitorVars, baselineVars, projectVars, vaultVars>>
    \/ HuntSort /\ UNCHANGED <<healVars, scoreVars, logVars, diagVars, auditVars, monitorVars, baselineVars, projectVars, vaultVars>>
    \/ HuntSortRaise /\ UNCHANGED <<healVars, scoreVars, logVars, diagVars, auditVars, monitorVars, baselineVars, projectVars, vaultVars>>
    \/ HuntSkipCorrelation /\ UNCHANGED <<healVars, scoreVars, logVars, diagVars, auditVars, monitorVars, baselineVars, projectVars, vaultVars>>
    \/ HuntCorrelate /\ UNCHANGED <<healVars, scoreVars, logVars, diagVars, auditVars, monitorVars, baselineVars, projectVars, vaultVars>>
    \/ HuntCorrelateEnd /\ UNCHANGED <<healVars, scoreVars, logVars, diagVars, auditVars, monitorVars, baselineVars, projectVars, vaultVars>>
    \/ HuntReturn /\ UNCHANGED <<healVars, scoreVars, logVars, diagVars, auditVars, monitorVars, baselineVars, projectVars, vaultVars>>

HuntSpecInit == HuntInit /\ HealIdle /\ ScoreIdle /\ LogIdle /\ DiagIdle /\ AuditIdle /\ MonitorIdle /\ BaselineIdle /\ ProjectIdle /\ VaultIdle

SpecHunt == HuntSpecInit /\ [][HuntNext]_vars

HuntBurstNext ==
    \/ HuntSearchBurst /\ UNCHANGED <<healVars, scoreVars, logVars, diagVars, auditVars, monitorVars, baselineVars, projectVars, vaultVars>>
    \/ HuntSort /\ UNCHANGED <<healVars, scoreVars, logVars, diagVars, auditVars, monitorVars, baselineVars, projectVars, vaultVars>>
    \/ HuntSortRaise /\ UNCHANGED <<healVars, scoreVars, logVars, diagVars, auditVars, monitorVars, baselineVars, projectVars, vaultVars>>
    \/ HuntSkipCorrelation /\ UNCHANGED <<healVars, scoreVars, logVars, diagVars, auditVars, monitorVars, baselineVars, projectVars, vaultVars>>
    \/ HuntCorrelate /\ UNCHANGED <<healVars, scoreVars, logVars, diagVars, auditVars, monitorVars, baselineVars, projectVars, vaultVars>>
    \/ HuntCorrelateEnd /\ UNCHANGED <<healVars, scoreVars, logVars, diagVars, auditVars, monitorVars, baselineVars, projectVars, vaultVars>>
    \/ HuntReturn /\ UNCHANGED <<healVars, scoreVars, logVars, diagVars, auditVars, monitorVars, baselineVars, projectVars, vaultVars>>

SpecHuntBurst == HuntSpecInit /\ [][HuntBurstNext]_vars

LogNext == LogAnalyze /\ UNCHANGED <<healVars, scoreVars, huntVars, diagVars, auditVars, monitorVars, baselineVars, projectVars, vaultVars>>

LogSpecInit == LogInit /\ HealIdle /\ ScoreIdle /\ HuntIdle /\ DiagIdle /\ AuditIdle /\ MonitorIdle /\ BaselineIdle /\ ProjectIdle /\ VaultIdle

SpecLog == LogSpecInit /\ [][LogNext]_vars

LogLinesSpecInit == LogLinesInit /\ HealIdle /\ ScoreIdle /\ HuntIdle /\ DiagIdle /\ AuditIdle /\ MonitorIdle /\ BaselineIdle /\ ProjectIdle /\ VaultIdle

SpecLogLines == LogLinesSpecInit /\ [][LogNext]_vars

LogTailSpecInit == LogTailInit /\ HealIdle /\ ScoreIdle /\ HuntIdle /\ DiagIdle /\ AuditIdle /\ MonitorIdle /\ BaselineIdle /\ ProjectIdle /\ VaultIdle

SpecLogTail == LogTailSpecInit /\ [][LogNext]_vars

DiagNext ==
    \/ DiagSystem /\ UNCHANGED <<healVars, scoreVars, huntVars, logVars, auditVars, monitorVars, baselineVars, projectVars, vaultVars>>
    \/ DiagNetwork /\ UNCHANGED <<healVars, scoreVars, huntVars, logVars, auditVars, monitorVars, baselineVars, projectVars, vaultVars>>
    \/ DiagSecurity /\ UNCHANGED <<healVars, scoreVars, huntVars, logVars, auditVars, monitorVars, baselineVars, projectVars, vaultVars>>
    \/ DiagPerformance /\ UNCHANGED <<healVars, scoreVars, huntVars, logVars, auditVars, monitorVars, baselineVars, projectVars, vaultVars>>
    \/ DiagReturn /\ UNCHANGED <<healVars, scoreVars, huntVars, logVars, auditVars, monitorVars, baselineVars, projectVars, vaultVars>>

DiagSpecInit == DiagInit /\ HealIdle /\ ScoreIdle /\ HuntIdle /\ LogIdle /\ AuditIdle /\ MonitorIdle /\ BaselineIdle /\ ProjectIdle /\ VaultIdle

SpecDiagnose == DiagSpecInit /\ [][DiagNext]_vars

AuditNext ==
    \/ AuditPackages /\ UNCHANGED <<healVars, scoreVars, huntVars, logVars, diagVars, monitorVars, baselineVars, projectVars, vaultVars>>
    \/ AuditPermissions /\ UNCHANGED <<healVars, scoreVars, huntVars, logVars, diagVars, monitorVars, baselineVars, projectVars, vaultVars>>
    \/ AuditNetwork /\ UNCHANGED <<healVars, scoreVars, huntVars, logVars, diagVars, monitorVars, baselineVars, projectVars, vaultVars>>
    \/ AuditConfig /\ UNCHANGED <<healVars, scoreVars, huntVars, logVars, diagVars, monitorVars, baselineVars, projectVars, vaultVars>>
    \/ AuditReturn /\ UNCHANGED <<healVars, scoreVars, huntVars, logVars, diagVars, monitorVars, baselineVars, projectVars, vaultVars>>
    \/ AuditReportRaise /\ UNCHANGED <<healVars, scoreVars, huntVars, logVars, diagVars, monitorVars, baselineVars, projectVars, vaultVars>>

AuditSpecInit == AuditInit /\ HealIdle /\ ScoreIdle /\ HuntIdle /\ LogIdle /\ DiagIdle /\ MonitorIdle /\ BaselineIdle /\ ProjectIdle /\ VaultIdle

SpecAudit == AuditSpecInit /\ [][AuditNext]_vars

MonitorNext ==
    \/ MonitorSample /\ UNCHANGED <<healVars, scoreVars, huntVars, logVars, diagVars, auditVars, baselineVars, projectVars, vaultVars>>
    \/ MonitorSampleRaise /\ UNCHANGED <<healVars, scoreVars, huntVars, logVars, diagVars, auditVars, baselineVars, projectVars, vaultVars>>
    \/ MonitorReturn /\ UNCHANGED <<healVars, scoreVars, huntVars, logVars, diagVars, auditVars, baselineVars, projectVars, vaultVars>>

MonitorSpecInit == MonitorInit /\ HealIdle /\ ScoreIdle /\ HuntIdle /\ LogIdle /\ DiagIdle /\ AuditIdle /\ BaselineIdle /\ ProjectIdle /\ VaultIdle

SpecMonitor == MonitorSpecInit /\ [][MonitorNext]_vars

BaselineNext ==
    \/ BaselineCpu /\ UNCHANGED <<healVars, scoreVars, huntVars, logVars, diagVars, auditVars, monitorVars, projectVars, vaultVars>>
    \/ BaselineMemory /\ UNCHANGED <<healVars, scoreVars, huntVars, logVars, diagVars, auditVars, monitorVars, projectVars, vaultVars>>
    \/ BaselineDisk /\ UNCHANGED <<healVars, scoreVars, huntVars, logVars, diagVars, auditVars, monitorVars, projectVars, vaultVars>>
    \/ BaselineNetwork /\ UNCHANGED <<healVars, scoreVars, huntVars, logVars, diagVars, auditVars, monitorVars, projectVars, vaultVars>>
    \/ BaselineLoad /\ UNCHANGED <<healVars, scoreVars, huntVars, logVars, diagVars, auditVars, monitorVars, projectVars, vaultVars>>
    \/ BaselineReturn /\ UNCHANGED <<healVars, scoreVars, huntVars, logVars, diagVars, auditVars, monitorVars, projectVars, vaultVars>>

BaselineSpecInit == BaselineInit /\ HealIdle /\ ScoreIdle /\ HuntIdle /\ LogIdle /\ DiagIdle /\ AuditIdle /\ MonitorIdle /\ ProjectIdle /\ VaultIdle

SpecBaseline == BaselineSpecInit /\ [][BaselineNext]_vars

ProjectNext ==
    \/ ProjectResolve /\ UNCHANGED <<healVars, scoreVars, huntVars, logVars, diagVars, auditVars, monitorVars, baselineVars, vaultVars>>
    \/ ProjectNotResolved /\ UNCHANGED <<healVars, scoreVars, huntVars, logVars, diagVars, auditVars, monitorVars, baselineVars, vaultVars>>
    \/ ProjectRun /\ UNCHANGED <<healVars, scoreVars, huntVars, logVars, diagVars, auditVars, monitorVars, baselineVars, vaultVars>>
    \/ ProjectRunRaise /\ UNCHANGED <<healVars, scoreVars, huntVars, logVars, diagVars, auditVars, monitorVars, baselineVars, vaultVars>>

ProjectSpecInit == ProjectInit /\ HealIdle /\ ScoreIdle /\ HuntIdle /\ LogIdle /\ DiagIdle /\ AuditIdle /\ MonitorIdle /\ BaselineIdle /\ VaultIdle

SpecProject == ProjectSpecInit /\ [][ProjectNext]_vars

VaultNext ==
    \/ VaultOpen /\ UNCHANGED <<healVars, scoreVars, huntVars, logVars, diagVars, auditVars, monitorVars, baselineVars, projectVars>>
    \/ VaultOpenRaise /\ UNCHANGED <<healVars, scoreVars, huntVars, logVars, diagVars, auditVars, monitorVars, baselineVars, projectVars>>
    \/ VaultRun /\ UNCHANGED <<healVars, scoreVars, huntVars, logVars, diagVars, auditVars, monitorVars, baselineVars, projectVars>>
    \/ VaultReturn /\ UNCHANGED <<healVars, scoreVars, huntVars, logVars, diagVars, auditVars, monitorVars, baselineVars, projectVars>>
    \/ VaultRaise /\ UNCHANGED <<healVars, scoreVars, huntVars, logVars, diagVars, auditVars, monitorVars, baselineVars, projectVars>>

VaultSpecInit == VaultInit /\ HealIdle /\ ScoreIdle /\ HuntIdle /\ LogIdle /\ DiagIdle /\ AuditIdle /\ MonitorIdle /\ BaselineIdle /\ ProjectIdle

SpecVault == VaultSpecInit /\ [][VaultNext]_vars

(***************************************************************************)
(* The properties of ansible_auto_heal, checked under SpecHeal.            *)
(***************************************************************************)

\* The order of the impact levels as the documentation states it.
ImpactOrder == <<"low", "medium", "high">>

ImpactPosition(level) == CHOOSE k \in 1..Len(ImpactOrder) : ImpactOrder[k] = level

ImpactLeq(a, b) == ImpactPosition(a) <= ImpactPosition(b)

Ceilings == {Some(ImpactOrder[k]) : k \in 1..Len(ImpactOrder)}

KnownSymptoms == {"high_cpu", "high_memory", "disk_full", "service_failed"}

KnownCount(syms) == Cardinality({k \in 1..Len(syms) : syms[k] \in KnownSymptoms})

Returned == pc = "done" /\ heal_return # None

\* C1: when dry_run is true no remote command, safety check or healing command,
\* is ever issued, for any symptoms and any max_impact; the returned dict still
\* lists the proposed and the blocked actions (together all generated actions)
\* and its execution_results is None.
C1_DryRunIssuesNoCommand ==
    dry_run = Some(TRUE) =>
        /\ issued = <<>>
        /\ execution_results = <<>>
        /\ Returned =>
            /\ Val(heal_return).execution_results = None
            /\ Val(heal_return).executed_actions = 0
            /\ Val(heal_return).proposed_actions = allowed_actions
            /\ Len(Val(heal_return).proposed_actions)
                 + Len(Val(heal_return).blocked_actions) = KnownCount(symptoms)

\* A dry run that returned with something proposed and something blocked.
C1_Witness ==
    /\ Returned
    /\ dry_run = Some(TRUE)
    /\ Val(heal_return).proposed_actions # <<>>
    /\ Val(heal_return).blocked_actions # <<>>

\* C2: for max_impact in {low, medium, high}, a generated action is proposed iff
\* its impact is <= max_impact under low < medium < high and blocked otherwise;
\* proposed and blocked are disjoint and together are exactly the actions
\* generated for the known symptoms; high_cpu gives 0 proposed and 1 blocked at
\* low, 1 proposed and 0 blocked at medium.
C2_ProposedIffWithinCeiling ==
    (Returned /\ max_impact \in Ceilings) =>
        LET proposed == Val(heal_return).proposed_actions
            blocked == Val(heal_return).blocked_actions
        IN /\ \A a \in Range(healing_actions) :
                /\ a \in Range(proposed) <=> ImpactLeq(a.impact, Val(max_impact))
                /\ a \in Range(blocked) <=> ~ImpactLeq(a.impact, Val(max_impact))
           /\ Range(proposed) \cap Range(blocked) = {}
           /\ Range(proposed) \cup Range(blocked) = Range(healing_actions)
           /\ Len(proposed) + Len(blocked) = Len(healing_actions)
           /\ [k \in 1..Len(healing_actions) |-> healing_actions[k].symptom]
                = SelectSeq(symptoms, LAMBDA x : x \in KnownSymptoms)
           /\ symptoms = <<"high_cpu">> =>
                /\ max_impact = Some("low") => Len(proposed) = 0 /\ Len(blocked) = 1
                /\ max_impact = Some("medium") => Len(proposed) = 1 /\ Len(blocked) = 0

\* high_cpu alone under the ceiling low: nothing proposed, one action blocked.
C2_Witness ==
    /\ Returned
    /\ symptoms = <<"high_cpu">>
    /\ max_impact = Some("low")
    /\ Val(heal_return).proposed_actions = <<>>
    /\ Len(Val(heal_return).blocked_actions) = 1

\* C3: with dry_run false the commands are issued in the order of the proposed
\* actions, for each its safety check and then its healing command; the healing
\* command is issued whatever the safety check returned, both results are
\* recorded, and success is the ok flag of the healing result.
C3_SafetyCheckThenHealInOrder ==
    dry_run = Some(FALSE) =>
        /\ Len(issued) <= 2 * Len(allowed_actions)
        /\ \A k \in 1..Len(issued) :
            issued[k].command =
                IF k % 2 = 1 THEN allowed_actions[(k + 1) \div 2].safety_check
                ELSE allowed_actions[k \div 2].command
        /\ \A k \in 1..Len(execution_results) :
            /\ 2 * k <= Len(issued)
            /\ execution_results[k].action = allowed_actions[k]
            /\ execution_results[k].safety_check_result = issued[2 * k - 1]
            /\ execution_results[k].healing_result = issued[2 * k]
            /\ execution_results[k].success = issued[2 * k].ok
        /\ Returned =>
            /\ Len(issued) = 2 * Len(Val(heal_return).proposed_actions)
            /\ Val(heal_return).execution_results = Some(execution_results)
            /\ Len(execution_results) = Len(Val(heal_return).proposed_actions)

\* Two actions executed, the healing command of one issued after its safety
\* check had failed.
C3_Witness ==
    /\ Returned
    /\ dry_run = Some(FALSE)
    /\ Len(execution_results) = 2
    /\ \E k \in 1..Len(execution_results) :
        /\ ~execution_results[k].safety_check_result.ok
        /\ execution_results[k].healing_result.ok
        /\ execution_results[k].success

\* C4: for fixed symptoms the proposed actions at low are among those at medium,
\* and those at medium among those at high: raising max_impact never removes a
\* proposed action, also not from the list the call returned.
C4_RaisingCeilingKeepsProposed ==
    /\ \A lo \in Ceilings, hi \in Ceilings :
        ImpactLeq(Val(lo), Val(hi)) =>
            /\ Range(FilterByImpact(BuildHealingActions(symptoms), lo))
                 \subseteq Range(FilterByImpact(BuildHealingActions(symptoms), hi))
            /\ Len(FilterByImpact(BuildHealingActions(symptoms), lo))
                 <= Len(FilterByImpact(BuildHealingActions(symptoms), hi))
    /\ (Returned /\ max_impact \in Ceilings) =>
        \A hi \in Ceilings :
            ImpactLeq(Val(max_impact), Val(hi)) =>
                Range(Val(heal_return).proposed_actions)
                    \subseteq Range(FilterByImpact(healing_actions, hi))

\* A call at the ceiling low that proposed an action and would propose more at
\* medium.
C4_Witness ==
    /\ Returned
    /\ max_impact = Some("low")
    /\ Val(heal_return).proposed_actions # <<>>
    /\ Len(FilterByImpact(healing_actions, Some("medium")))
         > Len(Val(heal_return).proposed_actions)

\* C5: a symptom that is none of high_cpu, high_memory, disk_full, service_failed
\* produces no action, proposed or blocked, and the call still returns ok, for
\* any max_impact and dry_run.
C5_UnknownSymptomIgnored ==
    Returned =>
        LET proposed == Val(heal_return).proposed_actions
            blocked == Val(heal_return).blocked_actions
        IN /\ Val(heal_return).ok
           /\ \A a \in Range(proposed) \cup Range(blocked) :
                a.symptom \in KnownSymptoms
           /\ Len(proposed) + Len(blocked) = KnownCount(symptoms)
           /\ (\A k \in 1..Len(symptoms) : symptoms[k] \notin KnownSymptoms) =>
                proposed = <<>> /\ blocked = <<>>

\* An unknown symptom beside a known one under the ceiling high: one action.
C5_Witness ==
    /\ Returned
    /\ symptoms = <<"unknown_symptom", "disk_full">>
    /\ max_impact = Some("high")
    /\ Len(Val(heal_return).proposed_actions) = 1
    /\ Val(heal_return).blocked_actions = <<>>

(***************************************************************************)
(* The properties of _calculate_health_score, checked under SpecScore.     *)
(***************************************************************************)

Scored == pc = "done" /\ assessment # None

\* C6: the score returned by _calculate_health_score is in [0,100] for every
\* metrics bag, whatever the number of failed services.  (The assessment is a
\* function of the metrics alone: the scorer reads nothing else.)
C6_ScoreWithinRange ==
    Scored =>
        /\ Val(assessment).score >= 0
        /\ Val(assessment).score <= 100

\* Deductions beyond 100 points, a failed service among them: the score is 0.
C6_Witness ==
    /\ Scored
    /\ Len(Get(metrics, "failed_services", <<>>)) >= 1
    /\ RawScore(metrics) < 0
    /\ Val(assessment).score = 0

\* C7: the returned level is decided by the returned score: critical iff
\* score < 50, warning iff 50 <= score < 80, healthy otherwise.
C7_LevelFollowsScore ==
    Scored =>
        /\ Val(assessment).level = "critical" <=> Val(assessment).score < 50
        /\ Val(assessment).level = "warning" <=>
              (50 <= Val(assessment).score /\ Val(assessment).score < 80)
        /\ Val(assessment).level = "healthy" <=> Val(assessment).score >= 80

\* A score on the threshold 50, which is a warning.
C7_Witness ==
    /\ Scored
    /\ Val(assessment).score = 50
    /\ Val(assessment).level = "warning"

\* C25: remote commands are issued only when dry_run is exactly false: when
\* dry_run is true, omitted (the default, true) or null, no safety check and no
\* healing command is executed.
C25_CommandsOnlyWhenDryRunIsFalse ==
    dry_run # Some(FALSE) =>
        /\ issued = <<>>
        /\ execution_results = <<>>

\* The actions whose safety check or healing command was issued.
IssuedActions ==
    {a \in Range(healing_actions) :
        \E k \in 1..Len(issued) : issued[k].command \in {a.safety_check, a.command}}

\* C26: a max_impact that is null or not one of low, medium, high is treated
\* as the ceiling low: no medium- or high-impact action is proposed or
\* executed under it.
C26_UnrecognizedCeilingIsLow ==
    max_impact \notin Ceilings =>
        /\ \A a \in Range(allowed_actions) : a.impact = "low"
        /\ \A a \in IssuedActions : a.impact = "low"
        /\ \A x \in Range(execution_results) : x.action.impact = "low"
        /\ pc # "heal_start" =>
              allowed_actions = SelectSeq(healing_actions, LAMBDA a : a.impact = "low")
        /\ Returned =>
              \A a \in Range(Val(heal_return).proposed_actions) : a.impact = "low"

\* An unknown ceiling, a low action executed and a medium one blocked.
C26_Witness ==
    /\ Returned
    /\ max_impact = Some("extreme")
    /\ Len(execution_results) > 0
    /\ \E a \in Range(Val(heal_return).blocked_actions) : a.impact = "medium"
    /\ \E a \in Range(Val(heal_return).proposed_actions) : a.impact = "low"

(***************************************************************************)
(* The properties of ansible_log_hunter, checked under SpecHunt.           *)
(***************************************************************************)

Hunted == pc = "done" /\ hunt_return # None

\* The matches with a parsed timestamp, in the order found.
Timestamped(ms) == SelectSeq(ms, LAMBDA x : x.timestamp # None)

\* The lines recorded in hunt_results for a log file and a pattern.
Recorded(log_file, pattern) ==
    IF <<log_file, pattern>> \in DOMAIN hunt_results
    THEN hunt_results[<<log_file, pattern>>].matches
    ELSE <<>>

\* C8: matches whose timestamp cannot be parsed are left out of the correlation
\* but kept in the raw hunt results, and the call completes with a result for
\* any mix of matches with and without a parseable timestamp.
C8_UnparsedMatchesKeptCallCompletes ==
    /\ pc # "raised"
    /\ Hunted =>
        /\ Val(hunt_return).total_matches = Len(all_matches)
        /\ \A k \in 1..Len(all_matches) :
            all_matches[k].line \in
                Range(Recorded(all_matches[k].log_file, all_matches[k].pattern))
        /\ \A c \in Range(Val(hunt_return).correlations) :
            /\ c.primary_event.timestamp # None
            /\ \A e \in Range(c.related_events) : e.timestamp # None

\* s is in ascending order of timestamp.
Ascending(s) ==
    \A k \in 1..(Len(s) - 1) : Val(s[k].timestamp) <= Val(s[k + 1].timestamp)

\* How often x occurs in s.
Occurrences(s, x) == Cardinality({k \in 1..Len(s) : s[k] = x})

\* The indices after i whose timestamp is at most w seconds from that of i.
LaterWithin(sm, i, w) ==
    {j \in (i + 1)..Len(sm) :
        /\ Val(sm[j].timestamp) - Val(sm[i].timestamp) <= w
        /\ Val(sm[i].timestamp) - Val(sm[j].timestamp) <= w}

\* The elements of sm at the indices of J, in the order of sm.
Pick(sm, J) ==
    LET idx == SelectSeq([k \in 1..Len(sm) |-> k], LAMBDA k : k \in J)
    IN [n \in 1..Len(idx) |-> sm[idx[n]]]

\* The clusters the documentation describes for the sorted matches sm.
ClustersOf(sm, w) ==
    LET primaries ==
            SelectSeq([k \in 1..Len(sm) |-> k],
                      LAMBDA i : LaterWithin(sm, i, w) # {})
    IN [n \in 1..Len(primaries) |->
           [primary_event |-> sm[primaries[n]],
            related_events |-> Pick(sm, LaterWithin(sm, primaries[n], w)),
            correlation_strength |->
                1 + Cardinality(LaterWithin(sm, primaries[n], w))]]

\* C9: with the timestamped matches sorted ascending, the related set of match
\* i is exactly the later matches within correlation_window seconds of it
\* (boundary included), whether or not they already belong to an earlier
\* cluster; a cluster is emitted for i iff that set is not empty, with strength
\* 1 + |related|; two matches 5 seconds apart with window 10 give exactly one
\* cluster of strength 2.
C9_ClustersAreLaterMatchesWithinWindow ==
    /\ (\A k \in 1..Len(all_matches) : all_matches[k].timestamp # None) =>
            pc # "raised"
    /\ pc \in {"hunt_correlate", "hunt_return", "done"} /\ Len(all_matches) > 1 =>
        /\ Ascending(sorted_matches)
        /\ Len(sorted_matches) = Len(all_matches)
        /\ \A x \in Range(all_matches) :
            Occurrences(sorted_matches, x) = Occurrences(all_matches, x)
    /\ pc \in {"hunt_return", "done"} =>
        correlated_events = ClustersOf(sorted_matches, correlation_window)
    /\ Hunted =>
        /\ Val(hunt_return).correlated_events
             = Len(ClustersOf(sorted_matches, correlation_window))
        /\ (/\ Len(all_matches) = 2
            /\ {Val(all_matches[k].timestamp) : k \in 1..2} = {0, 5}
            /\ correlation_window = 10) =>
                /\ Len(Val(hunt_return).correlations) = 1
                /\ Val(hunt_return).correlations[1].correlation_strength = 2

\* Three matches in a chain: the primary of the second cluster is a related
\* event of the first.
C9_Witness ==
    /\ Hunted
    /\ Len(Val(hunt_return).correlations) = 2
    /\ Val(hunt_return).correlations[2].primary_event
         \in Range(Val(hunt_return).correlations[1].related_events)
    /\ Val(hunt_return).correlations[1].correlation_strength = 2

\* The primaries of s come in ascending order of timestamp.
PrimariesAscending(s) ==
    \A k \in 1..(Len(s) - 1) :
        Val(s[k].primary_event.timestamp) <= Val(s[k + 1].primary_event.timestamp)

C10_EmptyLogAnalysis ==
    (pc # "log_start" /\ logs = <<>>) =>
        /\ pc = "done"
        /\ analysis # None
        /\ Val(analysis).total_lines_analyzed = 0
        /\ \A c \in DOMAIN Val(analysis).pattern_counts :
            Val(analysis).pattern_counts[c] = 0
        /\ Val(analysis).recent_errors = <<>>
        /\ Val(analysis).error_rate.den # 0
        /\ Val(analysis).error_rate.num = 0

\* The analysis of the empty string has returned.
C10_Witness ==
    /\ pc = "done"
    /\ logs = <<>>
    /\ analysis # None
    /\ Val(analysis).total_lines_analyzed = 0

(***************************************************************************)
(* The recent-errors buffer of _analyze_log_patterns.                      *)
(***************************************************************************)

\* The analysis of the drawn text has returned.
Analysed == pc = "done" /\ analysis # None

\* How many times the loop appends a line: once per pattern of an appending
\* category that the line matches.
AppendsOf(line) ==
    Cardinality({k \in 1..Len(error_patterns) :
        /\ error_patterns[k].category \in {"error", "failure", "timeout"}
        /\ re_search(error_patterns[k].alternatives, lower(line))})

\* Every appended entry, line after line in the order of the lines.
RECURSIVE AppendedInLineOrder(_)
AppendedInLineOrder(lines) ==
    IF lines = <<>> THEN <<>>
    ELSE IF Len(lines) = 1
    THEN [k \in 1..AppendsOf(lines[1]) |-> strip(lines[1])]
    ELSE AppendedInLineOrder(SubSeq(lines, 1, Len(lines) \div 2))
         \o AppendedInLineOrder(SubSeq(lines, (Len(lines) \div 2) + 1, Len(lines)))

\* C11: for every log text, the recent_errors list returned by
\* _analyze_log_patterns has at most 10 entries, they are the last ones
\* appended (the oldest are evicted, the list is not the first 10), and they
\* stand in the order of their lines in the log.
C11_RecentErrorsAreLastTenInLineOrder ==
    Analysed =>
        LET r == Val(analysis).recent_errors
            a == AppendedInLineOrder(splitlines(logs))
        IN /\ Len(r) <= 10
           /\ Len(r) = Min(10, Len(a))
           /\ \A i \in 1..Len(r) : r[i] = a[Len(a) - Len(r) + i]

\* More than 10 entries were appended, the first of them differs from the
\* eleventh, and the analysis returned 10.
C11_Witness ==
    /\ Analysed
    /\ Len(AppendedInLineOrder(splitlines(logs))) > 10
    /\ AppendedInLineOrder(splitlines(logs))[1]
           # AppendedInLineOrder(splitlines(logs))[11]
    /\ Len(Val(analysis).recent_errors) = 10

(***************************************************************************)
(* The failure policy of ansible_diagnose_host.                            *)
(***************************************************************************)

\* The diagnosis has returned.
Diagnosed == pc = "done" /\ diagnose_return # None

\* The lines the probe of category c printed.
ProbeLines(c) == split(strip(probes[c].stdout), "\n")

\* The probe of category c failed, or (system) printed a line that is not a
\* number where a number is read.
ProbeUnusable(c) ==
    \/ ~probes[c].ok
    \/ /\ c = "system"
       /\ \E k \in 1..Min(3, Len(ProbeLines(c))) : ~IsNumber(ProbeLines(c)[k])

\* The entry of category c is the marker of an unusable probe: an error
\* message for system, "not reachable" for network, "unknown" for the others.
DegradedEntry(c, entry) ==
    CASE c = "system" -> DOMAIN entry = {"error"}
      [] c = "network" -> entry.internet_reachable = FALSE
      [] c = "security" ->
            /\ entry.recent_logins = <<"unknown">>
            /\ entry.network_services = <<"unknown">>
      [] c = "performance" -> entry.load_average = <<"unknown">>

\* The entry of category c reports what its own probe printed.
UsualEntry(c, entry) ==
    CASE c = "system" ->
            /\ "error" \notin DOMAIN entry
            /\ entry.disk_usage_percent = Number(ProbeLines(c)[1])
            /\ Len(ProbeLines(c)) > 1 =>
                   entry.memory_percent = Number(ProbeLines(c)[2])
            /\ Len(ProbeLines(c)) > 2 =>
                   entry.cpu_percent = Number(ProbeLines(c)[3])
      [] c = "network" ->
            entry.internet_reachable = (ProbeLines(c) = <<<<"reachable">>>>)
      [] c = "security" -> entry.recent_logins = ProbeLines(c)[1]
      [] c = "performance" -> entry.load_average = strip(probes[c].stdout)

Audited == pc = "done" /\ audit_return # None

\* The counter of a scored category with an output that is not a number read
\* as 0.
CounterOrZero(stored, category) ==
    IF category \in DOMAIN stored /\ IsNumber(stored[category][ScoredKey(category)])
    THEN Number(stored[category][ScoredKey(category)])
    ELSE 0

\* C13: in the scoring of ansible_security_audit a counter whose probe output
\* is non-numeric or unavailable (empty stdout, failed probe, text instead of
\* a number) is treated as 0: no exception leaves the call, and the audit
\* returns a security assessment scored with that counter at 0.
C13_NonNumericCounterCountsAsZero ==
    /\ pc # "raised"
    /\ (Audited /\ Truthy(generate_report)) =>
        LET stored == Val(audit_return).audit.categories
            report == Val(audit_return).audit.security_assessment
        IN /\ report # None
           /\ Val(report).score =
                 Max(0, 100
                        - PackagesDeduction(CounterOrZero(stored, "packages"))
                        - PermissionsDeduction(CounterOrZero(stored, "permissions"))
                        - NetworkDeduction(CounterOrZero(stored, "network")))

(***************************************************************************)
(* The samples of ansible_health_monitor.                                  *)
(***************************************************************************)

\* The monitoring has returned.
Monitored == pc = "done" /\ monitor_return # None

\* The probes issued so far, in order.
ProbesIssued == SelectSeq(monitor_events, LAMBDA e : e.kind = "probe")

\* The probe was ok and printed four fields with numbers for the load, the
\* memory and the disk.
Parseable(result) ==
    /\ result.ok
    /\ Len(split(strip(result.stdout), ",")) = 4
    /\ \A k \in 2..4 : IsNumber(split(strip(result.stdout), ",")[k])

\* C14: in ansible_health_monitor a sample whose probe output cannot be parsed
\* (a field count other than four, or a load, memory or disk field that is
\* not a number) is dropped from the series and monitoring goes on with the
\* next sample: no exception leaves the call, every collection point is
\* probed, and the series holds exactly the parseable samples.
C14_UnparseableSampleDroppedCallContinues ==
    /\ pc # "raised"
    /\ Monitored =>
        /\ Len(ProbesIssued) = collection_points
        /\ Val(monitor_return).monitoring.data_points =
               Len(SelectSeq(ProbesIssued, LAMBDA e : Parseable(Val(e.result))))

(***************************************************************************)
(* The deduction table of _calculate_health_score, checked under SpecScore. *)
(***************************************************************************)

\* The deduction of a usage: crit above the upper threshold, warn above the
\* lower one, none otherwise.
Band(usage, warn_above, warn, crit_above, crit) ==
    IF usage > crit_above THEN crit ELSE IF usage > warn_above THEN warn ELSE 0

\* The deductions of the table for the drawn metrics, a missing key counting
\* as 0, as no failed service, as a reachable network.
TableDeductions ==
    Band(Get(metrics, "cpu_percent", 0), 75, 15, 90, 30)
    + Band(Get(metrics, "memory_percent", 0), 85, 10, 95, 25)
    + Band(Get(metrics, "disk_usage_percent", 0), 85, 10, 95, 20)
    + 15 * Len(Get(metrics, "failed_services", <<>>))
    + (IF Get(metrics, "network_reachable", TRUE) = FALSE THEN 20 ELSE 0)

\* The rules of the table that the drawn metrics trigger, one per failed
\* service.
TriggeredRules ==
    (IF Get(metrics, "cpu_percent", 0) > 75 THEN 1 ELSE 0)
    + (IF Get(metrics, "memory_percent", 0) > 85 THEN 1 ELSE 0)
    + (IF Get(metrics, "disk_usage_percent", 0) > 85 THEN 1 ELSE 0)
    + Len(Get(metrics, "failed_services", <<>>))
    + (IF Get(metrics, "network_reachable", TRUE) = FALSE THEN 1 ELSE 0)

\* C15: _calculate_health_score returns score = max(0, 100 - sum of the
\* deductions), the deductions being independent and additive: cpu_percent
\* > 90 gives 30, 75 < cpu_percent <= 90 gives 15; memory_percent > 95 gives
\* 25, 85 < memory_percent <= 95 gives 10; disk_usage_percent > 95 gives 20,
\* 85 < disk_usage_percent <= 95 gives 10; 15 per entry of failed_services;
\* network_reachable == false gives 20; a missing key counts as 0 / true; and
\* every triggered rule adds one issue and one recommendation.
C15_ScoreFollowsDeductionTable ==
    Scored =>
        /\ Val(assessment).score = Max(0, 100 - TableDeductions)
        /\ Len(Val(assessment).issues) = TriggeredRules
        /\ Len(Val(assessment).recommendations) = TriggeredRules

\* No cpu_percent and no network_reachable key, a memory in the lower band, a
\* disk in the upper band and one failed service: 100 - 10 - 20 - 15 = 55, with
\* three issues.
C15_Witness ==
    /\ Scored
    /\ "cpu_percent" \notin DOMAIN metrics
    /\ "network_reachable" \notin DOMAIN metrics
    /\ Get(metrics, "memory_percent", 0) = 95
    /\ Get(metrics, "disk_usage_percent", 0) = 96
    /\ Len(Get(metrics, "failed_services", <<>>)) = 1
    /\ Val(assessment).score = 55
    /\ Len(Val(assessment).issues) = 3

\* The deductions the numbers printed by a usable system probe call for:
\* disk, memory and cpu usage on lines one to three, a missing line being 0.
SystemProbeDeductions ==
    IF "system" \notin check_types \/ ProbeUnusable("system") THEN 0
    ELSE LET lines == ProbeLines("system")
             usage(k) == IF Len(lines) >= k THEN Number(lines[k]) ELSE 0
         IN Band(usage(1), 85, 10, 95, 20) + Band(usage(2), 85, 10, 95, 25)
            + Band(usage(3), 75, 15, 90, 30)

\* C27: with includeRecommendations, a category whose probe failed contributes
\* no deduction to health_score; so when every selected probe fails (system
\* gives an error marker, the others their fallback values) the health_score
\* is 100, with level healthy and no issues.
C27_FailedProbesDeductNothing ==
    Diagnosed /\ Truthy(include_recommendations) =>
        LET health == Val(Val(diagnose_return).diagnosis.health_score)
        IN /\ health.score = Max(0, 100 - SystemProbeDeductions)
           /\ (\A c \in check_types : ~probes[c].ok) =>
                 /\ health.score = 100
                 /\ health.level = "healthy"
                 /\ health.issues = <<>>

\* All four categories selected and every probe failed.
C27_Witness ==
    /\ Diagnosed
    /\ Truthy(include_recommendations)
    /\ check_types = CheckCategories
    /\ \A c \in check_types : ~probes[c].ok
    /\ DOMAIN Val(diagnose_return).diagnosis.checks["system"] = {"error"}
    /\ Val(Val(diagnose_return).diagnosis.health_score).score = 100

(***************************************************************************)
(* The categories of _analyze_log_patterns, checked under SpecLog.         *)
(***************************************************************************)

\* The line contains one of the words, in upper or lower case.
Contains(line, words) ==
    \E k \in 1..Len(line) : LowerToken(line[k]) \in {LowerToken(w) : w \in words}

\* The lines of the drawn text that the analysis considers.
ConsideredLines == LastN(splitlines(logs), TailLines)

\* How many considered lines contain one of the words.
LinesContaining(words) ==
    Cardinality({k \in 1..Len(ConsideredLines) : Contains(ConsideredLines[k], words)})

\* C16: _analyze_log_patterns classifies each considered line into every
\* category whose pattern it matches and increments that category's counter
\* by one per line: a line containing ERROR, CRITICAL or FATAL counts as
\* error, one containing WARNING or WARN as warning, failed / failure /
\* exception as failure, timeout / timed out as timeout, connection refused /
\* reset as connection, out of memory / oom as memory, permission denied /
\* access denied as permission.
C16_EveryMatchingCategoryCounted ==
    Analysed =>
        LET counts == Val(analysis).pattern_counts
        IN /\ Get(counts, "error", 0) = LinesContaining({"ERROR", "CRITICAL", "FATAL"})
           /\ Get(counts, "warning", 0) = LinesContaining({"WARNING", "WARN"})
           /\ Get(counts, "failure", 0)
                 = LinesContaining({"failed", "failure", "exception"})
           /\ Get(counts, "timeout", 0) = LinesContaining({"timeout", "timed out"})
           /\ Get(counts, "connection", 0)
                 = LinesContaining({"connection refused", "connection reset"})
           /\ Get(counts, "memory", 0) = LinesContaining({"out of memory", "oom"})
           /\ Get(counts, "permission", 0)
                 = LinesContaining({"permission denied", "access denied"})

(***************************************************************************)
(* The window of _analyze_log_patterns, checked under SpecLogTail.         *)
(***************************************************************************)

\* C28: one log line contributes at most one entry to recent_errors, even when
\* it matches several of the categories error, failure and timeout, so the
\* entries retained are distinct line occurrences.
C28_OneRecentErrorPerLine ==
    Analysed =>
        \A x \in Range(Val(analysis).recent_errors) :
            Occurrences(Val(analysis).recent_errors, x)
                <= Cardinality({k \in 1..Len(ConsideredLines) :
                                   strip(ConsideredLines[k]) = x})

\* The lines of the drawn text.
AllLines == splitlines(logs)

\* The last 1000 lines of the drawn text, all of them when there are fewer.
LastThousand ==
    SubSeq(AllLines, Len(AllLines) - Min(1000, Len(AllLines)) + 1, Len(AllLines))

\* The counts and the recent errors of an analysis.
Findings(result) ==
    [pattern_counts |-> Val(result).pattern_counts,
     recent_errors |-> Val(result).recent_errors]

\* C17: _analyze_log_patterns only ever inspects the last 1000 lines of the
\* text.  The lines before them change no counter and no recent error (the
\* analysis finds what it finds in the last 1000 lines alone),
\* total_lines_analyzed = min(1000, number of lines), and error_rate is the sum
\* of all category counts divided by max(1, lines considered) times 100: it
\* counts matches, not lines, and can exceed 100.
C17_OnlyLastThousandLinesInspected ==
    Analysed =>
        /\ Findings(analysis) = Findings(_analyze_log_patterns(JoinLines(LastThousand)))
        /\ Val(analysis).total_lines_analyzed = Min(1000, Len(AllLines))
        /\ Val(analysis).error_rate.num
              = 100 * SumValues(Val(analysis).pattern_counts)
        /\ Val(analysis).error_rate.den = Max(1, Len(LastThousand))

\* A text of more than 1000 lines whose first line matches a pattern and is
\* not among the last 1000: the analysis counted 1000 lines and one match,
\* the one of the last line.
C17_Witness ==
    /\ Analysed
    /\ Len(AllLines) > 1000
    /\ AppendsOf(AllLines[1]) > 0
    /\ AppendsOf(AllLines[Len(AllLines)]) = 1
    /\ Val(analysis).total_lines_analyzed = 1000
    /\ Val(analysis).error_rate.den = 1000
    /\ Val(analysis).error_rate.num = 100

(***************************************************************************)
(* The security assessment of ansible_security_audit, checked under        *)
(* SpecAudit.                                                              *)
(***************************************************************************)

\* The parsed counter of a category in the returned audit, 0 when the category
\* was not audited.
Parsed(category) == Counter(Val(audit_return).audit.categories, category)

\* The score the counters give.
CounterScore ==
    Max(0, 100 - Min(5 * Parsed("packages"), 30)
               - Min(2 * Parsed("permissions"), 20)
               - 15 * Parsed("network"))

\* The scored categories with a non-zero finding.
NonZeroFindings ==
    {c \in {"packages", "permissions", "network"} : Parsed(c) # 0}

\* C18: the security assessment of ansible_security_audit is a function of
\* the parsed counters: score = max(0, 100 - min(5 * security_updates, 30)
\* - min(2 * world_writable_files, 20) - 15 * insecure_services), so it is in
\* [0,100]; level is critical if score < 40, warning if score < 70, good
\* otherwise; and one recommendation is emitted per category with a non-zero
\* finding.
C18_AssessmentFollowsCounters ==
    (Audited /\ Truthy(generate_report)) =>
        LET report == Val(audit_return).audit.security_assessment
        IN /\ report # None
           /\ Val(report).score = CounterScore
           /\ Val(report).score >= 0
           /\ Val(report).score <= 100
           /\ Val(report).level =
                 (IF CounterScore < 40 THEN "critical"
                  ELSE IF CounterScore < 70 THEN "warning" ELSE "good")
           /\ Len(Val(report).recommendations) = Cardinality(NonZeroFindings)

\* Seven security updates (35 points, capped at 30), no world-writable file
\* and two insecure services: the score is 40, on the threshold, a warning,
\* with two recommendations.
C18_Witness ==
    /\ Audited
    /\ Truthy(generate_report)
    /\ categories = AuditCategories
    /\ Parsed("packages") = 7
    /\ Parsed("permissions") = 0
    /\ Parsed("network") = 2
    /\ Val(Val(audit_return).audit.security_assessment).score = 40
    /\ Val(Val(audit_return).audit.security_assessment).level = "warning"
    /\ Len(Val(Val(audit_return).audit.security_assessment).recommendations) = 2

(***************************************************************************)
(* The health score of ansible_diagnose_host, checked under SpecDiagnose.  *)
(***************************************************************************)

\* The network check was selected and its probe printed "unreachable".
NetworkReportedUnreachable ==
    /\ "network" \in check_types
    /\ "network" \in DOMAIN probes
    /\ probes["network"].ok
    /\ strip(probes["network"].stdout) = <<"unreachable">>

\* C19: in ansible_diagnose_host with include_recommendations the metric maps
\* of the non-error categories are merged and scored, so that health_score
\* reflects the probes: when the network check is selected and its probe
\* reports the host unreachable, health_score carries the 20-point
\* connectivity deduction and the connectivity issue.
C19_UnreachableNetworkLowersHealthScore ==
    (Diagnosed /\ Truthy(include_recommendations) /\ NetworkReportedUnreachable) =>
        LET health == Val(diagnose_return).diagnosis.health_score
        IN /\ health # None
           /\ Val(health).score <= 80
           /\ Text("Network connectivity issues") \in Range(Val(health).issues)

(***************************************************************************)
(* The commands of ansible_auto_heal, checked under SpecHeal.              *)
(***************************************************************************)

\* The two commands of an action.
CommandsOf(action) == {action.safety_check, action.command}

\* The commands issued so far.
IssuedCommands == {issued[k].command : k \in 1..Len(issued)}

\* C20: in ansible_auto_heal with dry_run false every command issued belongs
\* to a proposed action and no safety check or healing command of a blocked
\* action is ever run; exactly two commands are issued per proposed action;
\* and a failed safety check or healing command of one action does not stop
\* the remaining proposed actions: the call returns one execution result per
\* proposed action, in order.
C20_OnlyProposedActionsRunAllOfThem ==
    dry_run = Some(FALSE) =>
        /\ IssuedCommands \subseteq
              UNION {CommandsOf(a) : a \in Range(allowed_actions)}
        /\ \A b \in Range(BlockedActions(healing_actions, allowed_actions)) :
              CommandsOf(b) \cap IssuedCommands = {}
        /\ Returned =>
            LET proposed == Val(heal_return).proposed_actions
                results == Val(Val(heal_return).execution_results)
            IN /\ \A b \in Range(Val(heal_return).blocked_actions) :
                     CommandsOf(b) \cap IssuedCommands = {}
               /\ Len(issued) = 2 * Len(proposed)
               /\ \A a \in Range(proposed) : CommandsOf(a) \subseteq IssuedCommands
               /\ Len(results) = Len(proposed)
               /\ \A k \in 1..Len(proposed) : results[k].action = proposed[k]
               /\ Val(heal_return).executed_actions = Len(proposed)

\* Two different proposed actions: the safety check and the healing command
\* of the first both failed, and the second was executed all the same.
C20_Witness ==
    /\ Returned
    /\ dry_run = Some(FALSE)
    /\ Len(Val(heal_return).proposed_actions) = 2
    /\ Val(heal_return).proposed_actions[1] # Val(heal_return).proposed_actions[2]
    /\ ~execution_results[1].safety_check_result.ok
    /\ ~execution_results[1].healing_result.ok
    /\ Len(issued) = 4
    /\ execution_results[2].healing_result.command
          = Val(heal_return).proposed_actions[2].command

(***************************************************************************)
(* The collection loop of ansible_health_monitor, checked under            *)
(* SpecMonitor.                                                            *)
(***************************************************************************)

\* Probes and sleeps alternate, a probe first and a probe last, every sleep
\* lasting the interval.
ProbesOneIntervalApart ==
    /\ Len(monitor_events) = IF collection_points = 0 THEN 0
                             ELSE 2 * collection_points - 1
    /\ \A k \in 1..Len(monitor_events) :
        IF k % 2 = 1 THEN monitor_events[k].kind = "probe"
        ELSE /\ monitor_events[k].kind = "sleep"
             /\ monitor_events[k].seconds = interval

\* C21: ansible_health_monitor terminates after issuing exactly
\* duration // interval sample probes, one after another, sleeping one full
\* interval between consecutive probes and not after the last one; when fewer
\* than two samples were collected the trend analysis is an error marker and
\* the call still returns ok.  No exception ends the call before that.
C21_ExactlyCollectionPointsProbesThenReturn ==
    /\ pc # "raised"
    /\ Monitored =>
        /\ Len(ProbesIssued) = collection_points
        /\ ProbesOneIntervalApart
        /\ Val(monitor_return).ok = TRUE
        /\ Val(monitor_return).monitoring.data_points < 2 =>
              DOMAIN Val(monitor_return).monitoring.trend_analysis = {"error"}

(***************************************************************************)
(* The scoring of ansible_performance_baseline, checked under SpecBaseline. *)
(***************************************************************************)

Baselined == pc = "done" /\ baseline_return # None

\* The load average the probe printed, when it is a number.
ParsedLoad ==
    IF IsNumber(benchmarks["system_load"])
    THEN Some(Number(benchmarks["system_load"])) ELSE None

\* The memory throughput the benchmark printed, when it is a number of MB/s.
ParsedThroughput ==
    IF /\ Len(benchmarks["memory"]) = 3
       /\ IsNumber(<<benchmarks["memory"][1]>>)
       /\ benchmarks["memory"][3] = "MB/s"
    THEN Some(Number(<<benchmarks["memory"][1]>>)) ELSE None

\* C23: for every combination of the load-average and memory-throughput
\* outputs, the score is 100, minus 20 if the load average parses to a value
\* above 2.0, minus 15 if the memory throughput parses to a value below 100;
\* an output that cannot be parsed only adds an issue note and never aborts
\* the call, whose ok stays true.
C23_BaselineScoreFollowsBothOutputs ==
    /\ pc # "raised"
    /\ Baselined =>
        /\ Val(baseline_return).ok = TRUE
        /\ Val(baseline_return).baseline.performance_assessment.score
             = 100 - (IF ParsedLoad # None /\ Val(ParsedLoad) > 2 THEN 20 ELSE 0)
                   - (IF ParsedThroughput # None /\ Val(ParsedThroughput) < 100
                      THEN 15 ELSE 0)

(***************************************************************************)
(* The project resolution, checked under SpecProject.                      *)
(***************************************************************************)

Resolved == pc \in {"project_resolved", "done", "raised"}

NameGiven == project # None /\ Val(project) # ""
EnvironmentGiven == env_root # None /\ Val(env_root) # ""
DefaultSaved == default_project # None /\ Val(default_project) # ""

\* The registered project of that name, None when there is none.
Registered(name) ==
    IF name \in DOMAIN registry THEN Some(registry[name]) ELSE None

\* C24: the project is picked in the order explicit name > environment
\* override > saved default: an explicit name is looked up in the registry and
\* wins over both the others, the environment project is used only when no
\* name is given, and the saved default only when neither is present; when
\* nothing resolves the tool returns {ok: false, error} and does not raise.
C24_ExplicitNameThenEnvironmentThenDefault ==
    /\ Resolved =>
        /\ NameGiven => defn = Registered(Val(project))
        /\ ~NameGiven /\ EnvironmentGiven =>
              /\ defn # None
              /\ Val(defn).name = "env"
              /\ Val(defn).root \in {"/srv/env", "/cwd/env"}
        /\ ~NameGiven /\ ~EnvironmentGiven /\ DefaultSaved =>
              defn = Registered(Val(default_project))
        /\ ~NameGiven /\ ~EnvironmentGiven /\ ~DefaultSaved => defn = None
        /\ playbook_run # None => Val(playbook_run).cwd = Val(defn).root
    /\ Resolved /\ defn = None =>
        /\ pc # "raised"
        /\ playbook_run = None
        /\ pc = "done" =>
              /\ Val(project_return).ok = FALSE
              /\ DOMAIN Val(project_return) = {"ok", "error"}

\* A registered explicit name chosen although the environment names a project
\* and another default is saved, its playbook run in its own root.
C24_Witness ==
    /\ pc = "done"
    /\ NameGiven /\ EnvironmentGiven /\ DefaultSaved
    /\ Val(default_project) # Val(project)
    /\ Val(default_project) \in DOMAIN registry
    /\ defn # None
    /\ Val(defn).name = Val(project)
    /\ playbook_run # None

(***************************************************************************)
(* The vault tools, checked under SpecVault.                               *)
(***************************************************************************)

\* The argument that follows flag in the command line, None without the flag.
ArgumentOf(command, flag) ==
    IF \E k \in 1..(Len(command) - 1) : command[k] = flag
    THEN Some(command[(CHOOSE k \in 1..(Len(command) - 1) : command[k] = flag) + 1])
    ELSE None

Given(o) == o # None /\ Val(o) # ""

\* C29: vault_rekey passes the new-password source of the caller to
\* ansible-vault as --new-vault-password-file for every combination of how
\* the old and the new password are given (inline or as a file): an inline
\* new password as a temporary file holding that password, a
\* new_password_file as that very path, also when the old password is inline.
C29_RekeyPassesNewPasswordSource ==
    /\ vault_tool = "rekey"
    /\ vault_run # None
    /\ Given(password) # Given(password_file)
    /\ Given(new_password) # Given(new_password_file)
    => LET passed == ArgumentOf(Val(vault_run).command, "--new-vault-password-file")
       IN /\ passed # None
          /\ Given(new_password_file) => Val(passed) = Val(new_password_file)
          /\ Given(new_password) =>
                /\ Val(passed) \in DOMAIN Val(vault_run).files
                /\ Val(vault_run).files[Val(passed)] = Val(new_password)

====
